---- MODULE Spec2Model ----
(***************************************************************************)
(* Document model of the Mongoose schemas of crud-backend-practice-js:     *)
(* Category, Review, Post and Order documents, the validation declared by  *)
(* their schemas, and their pre('save') middleware.                        *)
(*                                                                         *)
(* A save is one atomic step: the document's schema validation runs first  *)
(* (Mongoose registers it as the first pre('save') hook), then the         *)
(* schema's own pre('save') middleware, then the write, which the          *)
(* collection's unique indexes may reject.                                 *)
(*                                                                         *)
(* Strings are sequences of one-character strings.  An absent (undefined)  *)
(* string is the sequence Undefined; an argument the caller does not pass  *)
(* is Omitted.                                                             *)
(***************************************************************************)
EXTENDS Integers, Sequences, FiniteSets, TLC

VARIABLES categories, lastCategory, categoryOps,
          reviews, lastReview, reviewOps,
          posts, lastPost, postOps, now,
          orders, lastOrder, orderOps,
          users, lastUser, userOps,
          tags, lastTag, tagOps,
          products, lastProduct, productOps,
          slugRun, treeRun, calls

categoryVars == <<categories, lastCategory, categoryOps>>

reviewVars == <<reviews, lastReview, reviewOps>>

postVars == <<posts, lastPost, postOps, now>>

orderVars == <<orders, lastOrder, orderOps>>

userVars == <<users, lastUser, userOps>>

tagVars == <<tags, lastTag, tagOps>>

productVars == <<products, lastProduct, productOps>>

vars == <<categoryVars, reviewVars, postVars, orderVars, userVars, tagVars,
          productVars, slugRun, treeRun, calls>>

(***************************************************************************)
(* Bounds                                                                  *)
(***************************************************************************)
MaxCategories == 2

MaxLevel == 2

MaxCategoryOps == 3

MaxReviews == 1

MaxReviewOps == 2

MaxVotes == 2

MaxReviewReplies == 1

MaxFlags == 1

MaxPosts == 1

MaxPostOps == 4

MaxReactions == 1

MaxComments == 1

MaxCommentReplies == 1

MaxNow == 1

MaxOrders == 1

MaxOrderOps == 3

MaxItems == 2

MaxQuantity == 3

MaxUsers == 2

MaxUserOps == 3

MaxTags == 2

MaxTagOps == 2

MaxProducts == 2

MaxProductOps == 2

\* the largest displayOrder a caller passes
MaxDisplayOrder == 1

\* the number of nested buildTree calls the model follows
MaxTreeDepth == 4

\* the number of calls of Tag.findOrCreate
MaxCalls == 2

MaxSluggedOps == 2
\* saves of reviews, posts, tags and products in one trace of SpecDerived
MaxDerivedOps == 3
\* saves of categories, tags and products in one trace of SpecRenamed
MaxRenamedOps == 3

MaxSlugLength == 4

MaxSlugPasses == 2

(***************************************************************************)
(* Strings                                                                 *)
(***************************************************************************)
Undefined == <<"undefined">>

Omitted == <<"omitted">>

UpperCase == {"A", "B"}

LowerAlnum == {"a", "b", "w", "0", "1", "2", "3"}

WhiteSpace == {" "}

\* String.prototype.toLowerCase, one character
LowerChar(c) ==
  CASE c = "A" -> "a"
    [] c = "B" -> "b"
    [] OTHER -> c

\* String.prototype.toLowerCase
ToLowerCase(s) == [i \in 1..Len(s) |-> LowerChar(s[i])]

RECURSIVE TrimStart(_)
\* the leading half of String.prototype.trim (the schema option trim: true)
TrimStart(s) ==
  IF s = <<>> THEN <<>>
  ELSE IF Head(s) \in WhiteSpace THEN TrimStart(Tail(s))
  ELSE s

RECURSIVE TrimEnd(_)
\* the trailing half of String.prototype.trim
TrimEnd(s) ==
  IF s = <<>> THEN <<>>
  ELSE IF s[Len(s)] \in WhiteSpace THEN TrimEnd(SubSeq(s, 1, Len(s) - 1))
  ELSE s

\* String.prototype.trim
Trim(s) == TrimEnd(TrimStart(s))

RECURSIVE SkipNonAlnum(_)
\* the rest of s after the run of characters outside a-z0-9 it starts with
SkipNonAlnum(s) ==
  IF s = <<>> THEN <<>>
  ELSE IF Head(s) \in LowerAlnum THEN s
  ELSE SkipNonAlnum(Tail(s))

RECURSIVE ReplaceNonAlnumChars(_)
\* the replacement with every character outside a-z0-9 turned into a hyphen
ReplaceNonAlnumChars(s) ==
  IF s = <<>> THEN <<>>
  ELSE IF Head(s) \in LowerAlnum
       THEN <<Head(s)>> \o ReplaceNonAlnumChars(Tail(s))
       ELSE <<"-">> \o ReplaceNonAlnumChars(Tail(s))

RECURSIVE ReplaceNonAlnumRuns(_)
\* .replace(/[^a-z0-9]+/g, '-')
ReplaceNonAlnumRuns(s) ==
  IF s = <<>> THEN <<>>
  ELSE IF Head(s) \in LowerAlnum
       THEN <<Head(s)>> \o ReplaceNonAlnumRuns(Tail(s))
       ELSE <<"-">> \o ReplaceNonAlnumRuns(SkipNonAlnum(s))

\* .replace(/(^-|-$)/g, ''): one hyphen off the start, one off the end
StripEdgeHyphens(s) ==
  LET t == IF s # <<>> /\ Head(s) = "-" THEN Tail(s) ELSE s
  IN  IF t # <<>> /\ t[Len(t)] = "-" THEN SubSeq(t, 1, Len(t) - 1) ELSE t

\* name.toLowerCase().replace(/[^a-z0-9]+/g, '-').replace(/(^-|-$)/g, '')
Slugify(name) == StripEdgeHyphens(ReplaceNonAlnumRuns(ToLowerCase(name)))

\* the setters of a String path declared lowercase: true, trim: true
LowerTrimSetter(s) == Trim(ToLowerCase(s))

\* JavaScript truthiness of a string value: undefined and '' are falsy
Truthy(s) == s # Undefined /\ s # <<>>

\* doc[path]?.length || 0: the length of an array path, 0 when the path is
\* unset (an unset path is a field the record does not have)
ListLength(doc, path) == IF path \in DOMAIN doc THEN Len(doc[path]) ELSE 0

\* the paths of a document other than the given ones
Frame(doc, paths) == [f \in DOMAIN doc \ paths |-> doc[f]]

\* the document after assigning undefined to the given paths
Unset(doc, paths) == Frame(doc, paths)

NoFrame == <<>>

(***************************************************************************)
(* Category                                                                *)
(***************************************************************************)
NullParent == 0

OmittedParent == -1

\* names a caller passes for a category
CategoryNameInputs == {<<"A", "-">>, <<"-", "-">>, <<"A">>}

\* slugs a caller passes for a category (or none)
CategorySlugInputs == {Omitted, <<"B">>}

\* parents a caller passes: none, null, or an ObjectId
CategoryParentInputs == {OmittedParent, NullParent} \cup 1..MaxCategories

CategoryNameMinLength == 2

\* schema validation of a category about to be saved: name is required and
\* has at least 2 characters
CategoryValid(doc) ==
  /\ doc.name # Undefined
  /\ Len(doc.name) >= CategoryNameMinLength

\* Model.findById: the stored document, if any
CategoryExists(id) == id \in DOMAIN categories

\* the document a constructor call new Category({name, slug, parent}) builds:
\* schema setters applied, defaults for what is not passed (displayOrder 0,
\* status 'active'); modified lists the paths the caller set
NewCategory(name, slug, parent) ==
  [doc |-> [name |-> Trim(name),
            slug |-> IF slug = Omitted THEN Undefined ELSE LowerTrimSetter(slug),
            parent |-> IF parent = OmittedParent THEN NullParent ELSE parent,
            ancestors |-> <<>>,
            level |-> 0,
            path |-> Undefined,
            displayOrder |-> 0,
            status |-> "active"],
   modified |-> {"name"} \cup (IF slug = Omitted THEN {} ELSE {"slug"})
                         \cup (IF parent = OmittedParent THEN {} ELSE {"parent"})]

\* a stored document after the caller assigned name, slug and parent: a path
\* is modified when the value assigned differs from the stored one
PatchedCategory(old, name, slug, parent) ==
  LET n == IF name = Omitted THEN old.name ELSE Trim(name)
      s == IF slug = Omitted THEN old.slug ELSE LowerTrimSetter(slug)
      p == IF parent = OmittedParent THEN old.parent ELSE parent
  IN  [doc |-> [old EXCEPT !.name = n, !.slug = s, !.parent = p],
       modified |-> (IF n # old.name THEN {"name"} ELSE {})
                    \cup (IF s # old.slug THEN {"slug"} ELSE {})
                    \cup (IF p # old.parent THEN {"parent"} ELSE {})]

\* the first block with a taken slug made unique by a suffix
CategorySlugStepDisambiguating(doc, modified) ==
  IF "name" \in modified /\ ~Truthy(doc.slug)
  THEN [doc EXCEPT
          !.slug = IF \E other \in DOMAIN categories :
                        categories[other].slug = Slugify(doc.name)
                   THEN Slugify(doc.name) \o <<"-", "2">>
                   ELSE Slugify(doc.name)]
  ELSE doc

\* the first block with the slug following every change of name
CategorySlugStepOnRename(doc, modified) ==
  IF "name" \in modified
  THEN [doc EXCEPT !.slug = Slugify(doc.name)]
  ELSE doc

\* categorySchema.pre('save'), first block: the slug
CategorySlugStep(doc, modified) ==
  IF "name" \in modified /\ ~Truthy(doc.slug)
  THEN [doc EXCEPT !.slug = Slugify(doc.name)]
  ELSE doc

\* the second block with the level copied from the parent
CategoryHierarchyStepSameLevel(doc, modified) ==
  IF "parent" \in modified /\ doc.parent # NullParent /\ CategoryExists(doc.parent)
  THEN [doc EXCEPT
          !.ancestors = categories[doc.parent].ancestors \o <<doc.parent>>,
          !.level = categories[doc.parent].level,
          !.path = categories[doc.parent].path \o <<"/">> \o doc.slug]
  ELSE doc

\* the second block with level left alone when parent becomes null
CategoryHierarchyStepKeepingLevel(doc, modified) ==
  IF "parent" \in modified
  THEN IF doc.parent # NullParent
       THEN IF CategoryExists(doc.parent)
            THEN LET parentCategory == categories[doc.parent]
                 IN  [doc EXCEPT
                        !.ancestors = parentCategory.ancestors \o <<doc.parent>>,
                        !.level = parentCategory.level + 1,
                        !.path = (IF Truthy(parentCategory.path)
                                  THEN parentCategory.path
                                  ELSE parentCategory.slug) \o <<"/">> \o doc.slug]
            ELSE doc
       ELSE [doc EXCEPT !.ancestors = <<>>, !.path = doc.slug]
  ELSE doc

\* categorySchema.pre('save'), second block: ancestors, level and path
CategoryHierarchyStep(doc, modified) ==
  IF "parent" \in modified
  THEN IF doc.parent # NullParent
       THEN IF CategoryExists(doc.parent)
            THEN LET parentCategory == categories[doc.parent]
                 IN  [doc EXCEPT
                        !.ancestors = parentCategory.ancestors \o <<doc.parent>>,
                        !.level = parentCategory.level + 1,
                        !.path = (IF Truthy(parentCategory.path)
                                  THEN parentCategory.path
                                  ELSE parentCategory.slug) \o <<"/">> \o doc.slug]
            ELSE doc
       ELSE [doc EXCEPT !.ancestors = <<>>, !.level = 0, !.path = doc.slug]
  ELSE doc

\* categorySchema.pre('save')
CategoryPreSave(doc, modified) ==
  CategoryHierarchyStep(CategorySlugStep(doc, modified), modified)

\* the unique index on slug: no other stored category holds the slug
CategorySlugFree(id, slug) ==
  \A other \in DOMAIN categories \ {id} : categories[other].slug # slug

\* outcome of document.save() for the category id
CategorySaveResult(id, doc, modified) ==
  IF ~CategoryValid(doc) THEN "ValidationError"
  ELSE IF ~CategorySlugFree(id, CategoryPreSave(doc, modified).slug)
       THEN "DuplicateKey"
       ELSE "saved"

\* a save that also recomputes the hierarchy of the saved category's children
CategoriesAfterSaveCascading(id, doc, modified) ==
  IF CategorySaveResult(id, doc, modified) = "saved"
  THEN LET saved == CategoryPreSave(doc, modified)
       IN  [i \in DOMAIN categories \cup {id} |->
              IF i = id THEN saved
              ELSE IF categories[i].parent = id
                   THEN [categories[i] EXCEPT
                           !.ancestors = saved.ancestors \o <<id>>,
                           !.level = saved.level + 1]
                   ELSE categories[i]]
  ELSE categories

\* the collection after document.save() for the category id
CategoriesAfterSave(id, doc, modified) ==
  IF CategorySaveResult(id, doc, modified) = "saved"
  THEN [i \in DOMAIN categories \cup {id} |->
          IF i = id THEN CategoryPreSave(doc, modified) ELSE categories[i]]
  ELSE categories

\* what the caller did with parent in the save recorded in lastCategory: did
\* not pass it, passed the stored value, or modified it
ParentArgKind(parent, modified) ==
  IF parent = OmittedParent THEN "omitted"
  ELSE IF "parent" \in modified THEN "modified" ELSE "unchanged"

\* create: new Category({name, slug, parent}).save()
CreateCategory(name, slug, parent) ==
  LET id == Cardinality(DOMAIN categories) + 1
      fresh == NewCategory(name, slug, parent)
  IN  /\ categoryOps < MaxCategoryOps
      /\ categoryOps' = categoryOps + 1
      /\ id \in 1..MaxCategories
      /\ CategoryPreSave(fresh.doc, fresh.modified).level <= MaxLevel
      /\ categories' = CategoriesAfterSave(id, fresh.doc, fresh.modified)
      /\ lastCategory' = [op |-> "create", id |-> id,
                          parentArg |-> ParentArgKind(parent, fresh.modified),
                          result |-> CategorySaveResult(id, fresh.doc, fresh.modified)]
      /\ UNCHANGED <<reviewVars, postVars, orderVars, userVars, tagVars, productVars, slugRun, treeRun, calls>>

\* update: load the category id, assign the fields passed, save()
UpdateCategory(id, name, slug, parent) ==
  LET patched == PatchedCategory(categories[id], name, slug, parent)
  IN  /\ categoryOps < MaxCategoryOps
      /\ categoryOps' = categoryOps + 1
      /\ id \in DOMAIN categories
      /\ CategoryPreSave(patched.doc, patched.modified).level <= MaxLevel
      /\ categories' = CategoriesAfterSave(id, patched.doc, patched.modified)
      /\ lastCategory' = [op |-> "update", id |-> id,
                          parentArg |-> ParentArgKind(parent, patched.modified),
                          result |-> CategorySaveResult(id, patched.doc, patched.modified)]
      /\ UNCHANGED <<reviewVars, postVars, orderVars, userVars, tagVars, productVars, slugRun, treeRun, calls>>

\* update: load the category id, assign status and displayOrder, save()
SetCategoryDisplay(id, status, displayOrder) ==
  /\ categoryOps < MaxCategoryOps
  /\ categoryOps' = categoryOps + 1
  /\ id \in DOMAIN categories
  /\ LET doc == [categories[id] EXCEPT !.status = status,
                                       !.displayOrder = displayOrder]
     IN  /\ categories' = CategoriesAfterSave(id, doc, {"status", "displayOrder"})
         /\ lastCategory' = [op |-> "update", id |-> id, parentArg |-> "omitted",
                             result |-> CategorySaveResult(id, doc,
                                                           {"status", "displayOrder"})]
  /\ UNCHANGED <<reviewVars, postVars, orderVars, userVars, tagVars, productVars,
                 slugRun, treeRun, calls>>

NoCategoryOp == [op |-> "none", id |-> 0,
                 parentArg |-> "omitted", result |-> "none"]

InitCategory ==
  /\ categories = <<>>
  /\ lastCategory = NoCategoryOp
  /\ categoryOps = 0

NextCategory ==
  \/ \E name \in CategoryNameInputs, slug \in CategorySlugInputs,
        parent \in CategoryParentInputs :
       CreateCategory(name, slug, parent)
  \/ \E id \in 1..MaxCategories, name \in CategoryNameInputs \cup {Omitted},
        slug \in CategorySlugInputs, parent \in CategoryParentInputs :
       UpdateCategory(id, name, slug, parent)

(***************************************************************************)
(* Category.getTree                                                        *)
(***************************************************************************)
CategoryStatuses == {"active", "inactive", "draft"}

\* values a caller passes for displayOrder
DisplayOrderInputs == 0..MaxDisplayOrder

\* the order of sort({ level: 1 }) alone
SortsBeforeByLevel(a, b) == categories[a].level <= categories[b].level

\* the order of sort({ level: 1, displayOrder: 1 }): a may come before b
SortsBefore(a, b) ==
  \/ categories[a].level < categories[b].level
  \/ /\ categories[a].level = categories[b].level
     /\ categories[a].displayOrder <= categories[b].displayOrder

\* the arrays find({ status: 'active' }).sort({ level: 1, displayOrder: 1 })
\* may resolve to: the store picks the order of documents with equal keys
FindActiveSorted ==
  LET active == {c \in DOMAIN categories : categories[c].status = "active"}
  IN  {found \in [1..Cardinality(active) -> active] :
         /\ \A i, j \in DOMAIN found : i # j => found[i] # found[j]
         /\ \A i, j \in DOMAIN found : i < j => SortsBefore(found[i], found[j])}

\* the filter comparing the ObjectId objects themselves: only null is
\* identical to null
FilterByIdentity(found, parentId) ==
  SelectSeq(found, LAMBDA cat : parentId = NullParent
                                /\ categories[cat].parent = parentId)

\* categories.filter(cat => String(cat.parent) === String(parentId)), null
\* and each ObjectId having a string of its own
FilterByParent(found, parentId) ==
  SelectSeq(found, LAMBDA cat : categories[cat].parent = parentId)

\* the recursive call made with the parent of the category
ChildCallOfParent(cat) == categories[cat].parent

\* the argument of the recursive call for a category: buildTree(cat._id)
ChildCall(cat) == cat

\* getTree is not running
NoTreeRun == [pc |-> "idle", found |-> <<>>, stack |-> <<>>, result |-> <<>>]

\* getTree up to the first call buildTree(null): the query has resolved; a
\* frame holds the parentId of a call, the categories it filtered that are
\* not mapped yet, and the nodes it has mapped
GetTree ==
  /\ treeRun.pc = "idle"
  /\ \E found \in FindActiveSorted :
       treeRun' = [pc |-> "build", found |-> found,
                   stack |-> <<[parentId |-> NullParent,
                                todo |-> FilterByParent(found, NullParent),
                                done |-> <<>>]>>,
                   result |-> <<>>]
  /\ UNCHANGED <<categoryVars, reviewVars, postVars, orderVars, userVars, tagVars,
                 productVars, slugRun, calls>>

\* one step of buildTree: the innermost call either calls buildTree for the
\* next category it filtered, or returns its nodes to its caller (getTree
\* itself for the outermost call)
BuildTreeStep ==
  /\ treeRun.pc = "build"
  /\ LET depth == Len(treeRun.stack)
         top == treeRun.stack[depth]
     IN  IF top.todo # <<>>
         THEN /\ depth < MaxTreeDepth
              /\ treeRun' =
                   [treeRun EXCEPT
                      !.stack = Append(@, [parentId |-> ChildCall(Head(top.todo)),
                                           todo |-> FilterByParent(treeRun.found,
                                                      ChildCall(Head(top.todo))),
                                           done |-> <<>>])]
         ELSE IF depth = 1
              THEN treeRun' = [treeRun EXCEPT !.pc = "done", !.stack = <<>>,
                                              !.result = top.done]
              ELSE treeRun' =
                     [treeRun EXCEPT
                        !.stack = [i \in 1..(depth - 1) |->
                                     IF i = depth - 1
                                     THEN [@[i] EXCEPT
                                             !.todo = Tail(@),
                                             !.done = Append(@, [id |-> Head(treeRun.stack[i].todo),
                                                                 children |-> top.done])]
                                     ELSE @[i]]]
  /\ UNCHANGED <<categoryVars, reviewVars, postVars, orderVars, userVars, tagVars,
                 productVars, slugRun, calls>>

\* names a caller passes for the categories of a tree
TreeNameInputs == {<<"A", "-">>, <<"b", "b">>, <<"w", "w">>}

\* saves of categories that succeed, with parent passed as null or as an
\* ObjectId, then one call of getTree
NextTree ==
  \/ /\ treeRun.pc = "idle"
     /\ \/ \E name \in TreeNameInputs, parent \in {NullParent} \cup 1..MaxCategories :
             CreateCategory(name, Omitted, parent)
        \/ \E id \in 1..MaxCategories, parent \in {NullParent} \cup 1..MaxCategories :
             UpdateCategory(id, Omitted, Omitted, parent)
        \/ \E id \in 1..MaxCategories, status \in CategoryStatuses,
              displayOrder \in DisplayOrderInputs :
             SetCategoryDisplay(id, status, displayOrder)
     /\ lastCategory'.result = "saved"
  \/ GetTree
  \/ BuildTreeStep

(***************************************************************************)
(* Review                                                                  *)
(***************************************************************************)

TargetTypes == {"product", "post", "user", "order"}

\* the reference path each targetType names
TargetFieldOf(targetType) ==
  CASE targetType = "product" -> "product"
    [] targetType = "post" -> "post"
    [] targetType = "user" -> "targetUser"
    [] targetType = "order" -> "order"

TargetFields == {"product", "post", "order", "targetUser"}

\* the reference paths a caller sets: none, one of them, or all four
TargetSetInputs == {{}, TargetFields} \cup {{field} : field \in TargetFields}

\* targetType as a caller passes it: a member of the enum, or not passed
TargetTypeInputs == TargetTypes \cup {"omitted"}

VoteTypes == {"helpful", "not_helpful"}

\* replies a caller adds: authorType and isOfficial
ReplyInputs == {[authorType |-> "customer", isOfficial |-> FALSE],
                [authorType |-> "seller", isOfficial |-> FALSE],
                [authorType |-> "admin", isOfficial |-> TRUE]}

\* a value a caller passes for helpfulCount, notHelpfulCount,
\* helpfulnessScore, replyCount and flagCount
SuppliedCount == 7

\* schema validation of a review: targetType is required
ReviewValid(doc) == doc.targetType \in TargetTypes

\* the number of votes of one type: votes.filter(v => v.type === type).length
CountVotes(votes, type) == Cardinality({i \in 1..Len(votes) : votes[i] = type})

\* doc.votes?.filter(v => v.type === type).length || 0
CountVotesOf(doc, type) ==
  IF "votes" \in DOMAIN doc THEN CountVotes(doc.votes, type) ELSE 0

\* the middleware with only replies of sellers making hasSellerReply true
ReviewPreSaveSellerOnly(doc) ==
  LET helpful == CountVotes(doc.votes, "helpful")
      notHelpful == CountVotes(doc.votes, "not_helpful")
  IN  [doc EXCEPT
         !.helpfulCount = helpful,
         !.notHelpfulCount = notHelpful,
         !.helpfulnessScore = helpful - notHelpful,
         !.replyCount = Len(doc.replies),
         !.hasSellerReply = \E i \in 1..Len(doc.replies) :
                              doc.replies[i].authorType = "seller",
         !.flagCount = Len(doc.flags)]

\* the middleware with every vote counted as helpful
ReviewPreSaveAllVotes(doc) ==
  [doc EXCEPT
     !.helpfulCount = Len(doc.votes),
     !.notHelpfulCount = CountVotes(doc.votes, "not_helpful"),
     !.helpfulnessScore = Len(doc.votes) - CountVotes(doc.votes, "not_helpful"),
     !.replyCount = Len(doc.replies),
     !.hasSellerReply = \E i \in 1..Len(doc.replies) :
                          doc.replies[i].authorType = "seller" \/ doc.replies[i].isOfficial,
     !.flagCount = Len(doc.flags)]

\* the middleware keeping the first vote only
ReviewPreSaveOneVote(doc) ==
  LET helpful == CountVotesOf(doc, "helpful")
      notHelpful == CountVotesOf(doc, "not_helpful")
      firstOnly == IF "votes" \in DOMAIN doc /\ Len(doc.votes) > 1
                   THEN [doc EXCEPT !.votes = SubSeq(@, 1, 1)]
                   ELSE doc
  IN  [firstOnly EXCEPT
         !.helpfulCount = helpful,
         !.notHelpfulCount = notHelpful,
         !.helpfulnessScore = helpful - notHelpful,
         !.replyCount = ListLength(doc, "replies"),
         !.hasSellerReply = \E i \in 1..ListLength(doc, "replies") :
                              doc.replies[i].authorType = "seller" \/ doc.replies[i].isOfficial,
         !.flagCount = ListLength(doc, "flags")]

\* reviewSchema.pre('save')
ReviewPreSave(doc) ==
  LET helpful == CountVotesOf(doc, "helpful")
      notHelpful == CountVotesOf(doc, "not_helpful")
  IN  [doc EXCEPT
         !.helpfulCount = helpful,
         !.notHelpfulCount = notHelpful,
         !.helpfulnessScore = helpful - notHelpful,
         !.replyCount = ListLength(doc, "replies"),
         !.hasSellerReply = \E i \in 1..ListLength(doc, "replies") :
                              doc.replies[i].authorType = "seller" \/ doc.replies[i].isOfficial,
         !.flagCount = ListLength(doc, "flags")]

\* the paths reviewSchema.pre('save') assigns
ReviewDerivedPaths ==
  {"helpfulCount", "notHelpfulCount", "helpfulnessScore", "replyCount",
   "hasSellerReply", "flagCount"}

\* outcome of document.save() for a review
ReviewSaveResult(doc) == IF ReviewValid(doc) THEN "saved" ELSE "ValidationError"

\* the collection after document.save() for the review id
ReviewsAfterSave(id, doc) ==
  IF ReviewSaveResult(doc) = "saved"
  THEN [i \in DOMAIN reviews \cup {id} |->
          IF i = id THEN ReviewPreSave(doc) ELSE reviews[i]]
  ELSE reviews

\* the document new Review({targetType, <the paths in targets>, votes,
\* helpfulCount, notHelpfulCount, helpfulnessScore, replyCount,
\* hasSellerReply, flagCount}) builds
NewReview(targetType, targets, votes, counts) ==
  [targetType |-> targetType,
   targets |-> targets,
   votes |-> votes,
   helpfulCount |-> IF counts THEN SuppliedCount ELSE 0,
   notHelpfulCount |-> IF counts THEN SuppliedCount ELSE 0,
   helpfulnessScore |-> IF counts THEN SuppliedCount ELSE 0,
   replies |-> <<>>,
   replyCount |-> IF counts THEN SuppliedCount ELSE 0,
   hasSellerReply |-> counts,
   flags |-> <<>>,
   flagCount |-> IF counts THEN SuppliedCount ELSE 0]

\* one save of the review id, recorded in lastReview
SaveReview(op, id, doc, counts) ==
  /\ reviewOps < MaxReviewOps
  /\ reviewOps' = reviewOps + 1
  /\ reviews' = ReviewsAfterSave(id, doc)
  /\ lastReview' = [op |-> op, id |-> id, countsArg |-> counts,
                    result |-> ReviewSaveResult(doc),
                    frame |-> IF ReviewSaveResult(doc) = "saved"
                              THEN Frame(doc, ReviewDerivedPaths) ELSE NoFrame]
  /\ UNCHANGED <<categoryVars, postVars, orderVars, userVars, tagVars, productVars, slugRun, treeRun, calls>>

\* create: new Review({...}).save()
CreateReview(targetType, targets, votes, counts) ==
  LET id == Cardinality(DOMAIN reviews) + 1
  IN  /\ id \in 1..MaxReviews
      /\ SaveReview("create", id, NewReview(targetType, targets, votes, counts), counts)

\* update: load the review, assign targetType and the reference paths, save()
RetargetReview(id, targetType, targets) ==
  /\ id \in DOMAIN reviews
  /\ SaveReview("update", id,
                [reviews[id] EXCEPT !.targetType = targetType, !.targets = targets],
                FALSE)

\* update: load the review, push a vote, save()
AddVote(id, type) ==
  /\ id \in DOMAIN reviews
  /\ "votes" \in DOMAIN reviews[id]
  /\ Len(reviews[id].votes) < MaxVotes
  /\ SaveReview("update", id,
                [reviews[id] EXCEPT !.votes = Append(@, type)], FALSE)

\* update: load the review, push a reply, save()
AddReviewReply(id, reply) ==
  /\ id \in DOMAIN reviews
  /\ "replies" \in DOMAIN reviews[id]
  /\ Len(reviews[id].replies) < MaxReviewReplies
  /\ SaveReview("update", id,
                [reviews[id] EXCEPT !.replies = Append(@, reply)], FALSE)

\* update: load the review, push a flag, save()
AddFlag(id) ==
  /\ id \in DOMAIN reviews
  /\ "flags" \in DOMAIN reviews[id]
  /\ Len(reviews[id].flags) < MaxFlags
  /\ SaveReview("update", id,
                [reviews[id] EXCEPT !.flags = Append(@, "spam")], FALSE)

\* update: load the review, assign the six derived fields, save()
SetReviewCounts(id) ==
  /\ id \in DOMAIN reviews
  /\ SaveReview("update", id,
                [reviews[id] EXCEPT !.helpfulCount = SuppliedCount,
                                    !.notHelpfulCount = SuppliedCount,
                                    !.helpfulnessScore = SuppliedCount,
                                    !.replyCount = SuppliedCount,
                                    !.hasSellerReply = ~@,
                                    !.flagCount = SuppliedCount],
                TRUE)

\* update: load the review, assign undefined to votes, replies and flags,
\* save()
UnsetReviewLists(id) ==
  /\ id \in DOMAIN reviews
  /\ SaveReview("update", id,
                Unset(reviews[id], {"votes", "replies", "flags"}), FALSE)

\* vote lists a caller passes on create
VoteInputs == {<<>>, <<"helpful", "not_helpful">>}

InitReview ==
  /\ reviews = <<>>
  /\ lastReview = [op |-> "none", id |-> 0, countsArg |-> FALSE, result |-> "none",
                   frame |-> NoFrame]
  /\ reviewOps = 0

NextReview ==
  \/ \E targetType \in TargetTypeInputs, targets \in TargetSetInputs,
        votes \in VoteInputs, counts \in BOOLEAN :
       CreateReview(targetType, targets, votes, counts)
  \/ \E id \in 1..MaxReviews, targetType \in TargetTypeInputs,
        targets \in TargetSetInputs :
       RetargetReview(id, targetType, targets)
  \/ \E id \in 1..MaxReviews, type \in VoteTypes : AddVote(id, type)
  \/ \E id \in 1..MaxReviews, reply \in ReplyInputs : AddReviewReply(id, reply)
  \/ \E id \in 1..MaxReviews : AddFlag(id)
  \/ \E id \in 1..MaxReviews : SetReviewCounts(id)

(***************************************************************************)
(* Post                                                                    *)
(***************************************************************************)

\* titles a caller passes for a post
PostTitleInputs == {<<"A", "-", "b">>, <<"A", "b">>}

\* slugs a caller passes for a post (or none)
PostSlugInputs == {Omitted, <<"B">>}

\* a content of 201 words
LongContent == [i \in 1..401 |-> IF i % 2 = 1 THEN "w" ELSE " "]

\* contents a caller passes for a post
PostContentInputs == {LongContent, <<" ", "w", " ", " ", "w">>, <<" ">>}

\* excerpts a caller passes for a post (or none)
PostExcerptInputs == {Omitted, <<"w">>}

ReactionTypes == {"like", "love"}

PostTitleMinLength == 3

ExcerptLength == 300

WordsPerMinute == 200

\* a value a caller passes for stats.reactionsCount, stats.commentsCount and
\* stats.readTime
SuppliedStat == 9

\* schema validation of a post: title is required with at least 3
\* characters, content is required
PostValid(doc) ==
  /\ doc.title # Undefined
  /\ Len(doc.title) >= PostTitleMinLength
  /\ doc.content # Undefined
  /\ doc.content # <<>>

\* Date.now() as the text appended to a slug
TimestampText(t) ==
  <<CASE t = 0 -> "0" [] t = 1 -> "1" [] t = 2 -> "2" [] OTHER -> "3">>

\* content.split(/\s+/).length: one more than the number of runs of white
\* space, counted at the first character of each run
SplitLength(s) ==
  1 + Cardinality({i \in 1..Len(s) :
                     s[i] \in WhiteSpace /\ (i = 1 \/ s[i - 1] \notin WhiteSpace)})

\* postSchema.virtual('wordCount'): the pieces of content.split(/\s+/) that
\* are not empty, counted at the first character of each word
WordCount(s) ==
  Cardinality({i \in 1..Len(s) :
                 s[i] \notin WhiteSpace /\ (i = 1 \/ s[i - 1] \in WhiteSpace)})

\* content.substring(0, 300) + '...'
ExcerptOf(content) ==
  SubSeq(content, 1, IF Len(content) < ExcerptLength THEN Len(content) ELSE ExcerptLength)
    \o <<".", ".", ".">>

\* Math.ceil(wordCount / 200)
ReadTimeOf(wordCount) == (wordCount + WordsPerMinute - 1) \div WordsPerMinute

\* the number of comments and of the replies below them
CountCommentsAndReplies(comments) ==
  Len(comments) +
    Cardinality({<<c, r>> \in (1..Len(comments)) \X (1..MaxCommentReplies + 1) :
                   r <= Len(comments[c].replies)})

\* the tally the middleware stores in stats.commentsCount
CommentsCountOf(comments) == Len(comments)

\* the middleware with the timestamp appended only to a slug that is taken
PostPreSaveUniqueSlug(doc, modified, t) ==
  LET base == Slugify(doc.title)
      withSlug ==
        IF "title" \in modified /\ ~Truthy(doc.slug)
        THEN [doc EXCEPT
                !.slug = IF \E other \in DOMAIN posts : posts[other].slug = base
                         THEN base \o <<"-">> \o TimestampText(t)
                         ELSE base]
        ELSE doc
      withExcerpt ==
        IF "content" \in modified /\ ~Truthy(withSlug.excerpt)
        THEN [withSlug EXCEPT !.excerpt = ExcerptOf(withSlug.content)]
        ELSE withSlug
      withReadTime ==
        IF "content" \in modified
        THEN [withExcerpt EXCEPT
                !.stats.readTime = ReadTimeOf(SplitLength(withExcerpt.content))]
        ELSE withExcerpt
  IN  [withReadTime EXCEPT
         !.stats.reactionsCount = Len(withReadTime.reactions),
         !.stats.commentsCount = CommentsCountOf(withReadTime.comments)]

\* postSchema.pre('save'); t is Date.now()
PostPreSave(doc, modified, t) ==
  LET withSlug ==
        IF "title" \in modified /\ ~Truthy(doc.slug)
        THEN [doc EXCEPT !.slug = Slugify(doc.title) \o <<"-">> \o TimestampText(t)]
        ELSE doc
      withExcerpt ==
        IF "content" \in modified /\ ~Truthy(withSlug.excerpt)
        THEN [withSlug EXCEPT !.excerpt = ExcerptOf(withSlug.content)]
        ELSE withSlug
      withReadTime ==
        IF "content" \in modified
        THEN [withExcerpt EXCEPT
                !.stats.readTime = ReadTimeOf(SplitLength(withExcerpt.content))]
        ELSE withExcerpt
  IN  [withReadTime EXCEPT
         !.stats.reactionsCount = ListLength(withReadTime, "reactions"),
         !.stats.commentsCount =
           IF "comments" \in DOMAIN withReadTime
           THEN CommentsCountOf(withReadTime.comments) ELSE 0]

\* the paths postSchema.pre('save') assigns whatever they hold; slug and
\* excerpt are assigned only when they hold nothing
PostDerivedPaths == {"stats"}

\* the unique index on slug: no other stored post holds the slug
PostSlugFree(id, slug) ==
  \A other \in DOMAIN posts \ {id} : posts[other].slug # slug

\* outcome of document.save() for the post id
PostSaveResult(id, doc, modified) ==
  IF ~PostValid(doc) THEN "ValidationError"
  ELSE IF ~PostSlugFree(id, PostPreSave(doc, modified, now).slug) THEN "DuplicateKey"
       ELSE "saved"

\* the collection after document.save() for the post id
PostsAfterSave(id, doc, modified) ==
  IF PostSaveResult(id, doc, modified) = "saved"
  THEN [i \in DOMAIN posts \cup {id} |->
          IF i = id THEN PostPreSave(doc, modified, now) ELSE posts[i]]
  ELSE posts

\* the document new Post({title, slug, content, excerpt, stats}) builds
NewPost(title, slug, content, excerpt, stats) ==
  [title |-> Trim(title),
   slug |-> IF slug = Omitted THEN Undefined ELSE LowerTrimSetter(slug),
   content |-> Trim(content),
   excerpt |-> IF excerpt = Omitted THEN Undefined ELSE excerpt,
   reactions |-> <<>>,
   comments |-> <<>>,
   stats |-> [readTime |-> IF stats THEN SuppliedStat ELSE 0,
              reactionsCount |-> IF stats THEN SuppliedStat ELSE 0,
              commentsCount |-> IF stats THEN SuppliedStat ELSE 0]]

\* one save of the post id, recorded in lastPost
SavePost(op, id, doc, modified) ==
  /\ postOps < MaxPostOps
  /\ postOps' = postOps + 1
  /\ posts' = PostsAfterSave(id, doc, modified)
  /\ lastPost' = [op |-> op, id |-> id, slugArg |-> "slug" \in modified,
                  result |-> PostSaveResult(id, doc, modified),
                  frame |-> IF PostSaveResult(id, doc, modified) = "saved"
                            THEN Frame(doc, PostDerivedPaths) ELSE NoFrame]
  /\ UNCHANGED <<now, categoryVars, reviewVars, orderVars, userVars, tagVars, productVars, slugRun, treeRun, calls>>

\* create: new Post({...}).save()
CreatePost(title, slug, content, excerpt, stats) ==
  LET id == Cardinality(DOMAIN posts) + 1
  IN  /\ id \in 1..MaxPosts
      /\ SavePost("create", id, NewPost(title, slug, content, excerpt, stats),
                  {"title", "content"}
                    \cup (IF slug = Omitted THEN {} ELSE {"slug"})
                    \cup (IF excerpt = Omitted THEN {} ELSE {"excerpt"}))

\* update: load the post, assign title and content, save()
EditPost(id, title, content) ==
  /\ id \in DOMAIN posts
  /\ LET t == IF title = Omitted THEN posts[id].title ELSE Trim(title)
         c == IF content = Omitted THEN posts[id].content ELSE Trim(content)
     IN  SavePost("update", id,
                  [posts[id] EXCEPT !.title = t, !.content = c],
                  (IF t # posts[id].title THEN {"title"} ELSE {})
                    \cup (IF c # posts[id].content THEN {"content"} ELSE {}))

\* update: load the post, assign the three stats, save()
SetPostStats(id) ==
  /\ id \in DOMAIN posts
  /\ SavePost("update", id,
              [posts[id] EXCEPT !.stats = [readTime |-> SuppliedStat,
                                           reactionsCount |-> SuppliedStat,
                                           commentsCount |-> SuppliedStat]],
              {"stats"})

\* update: load the post, push a reaction, save()
AddReaction(id, type) ==
  /\ id \in DOMAIN posts
  /\ "reactions" \in DOMAIN posts[id]
  /\ Len(posts[id].reactions) < MaxReactions
  /\ SavePost("update", id, [posts[id] EXCEPT !.reactions = Append(@, type)],
              {"reactions"})

\* update: load the post, push a comment, save()
AddComment(id) ==
  /\ id \in DOMAIN posts
  /\ "comments" \in DOMAIN posts[id]
  /\ Len(posts[id].comments) < MaxComments
  /\ SavePost("update", id,
              [posts[id] EXCEPT
                 !.comments = Append(@, [reactions |-> <<>>, replies |-> <<>>])],
              {"comments"})

\* update: load the post, push a reaction onto the comment c, save()
AddCommentReaction(id, c, type) ==
  /\ id \in DOMAIN posts
  /\ "comments" \in DOMAIN posts[id]
  /\ c \in 1..Len(posts[id].comments)
  /\ Len(posts[id].comments[c].reactions) < MaxReactions
  /\ SavePost("update", id,
              [posts[id] EXCEPT !.comments[c].reactions = Append(@, type)],
              {"comments"})

\* update: load the post, push a reply onto the comment c, save()
AddCommentReply(id, c) ==
  /\ id \in DOMAIN posts
  /\ "comments" \in DOMAIN posts[id]
  /\ c \in 1..Len(posts[id].comments)
  /\ Len(posts[id].comments[c].replies) < MaxCommentReplies
  /\ SavePost("update", id,
              [posts[id] EXCEPT
                 !.comments[c].replies = Append(@, [reactions |-> <<>>])],
              {"comments"})

\* update: load the post, push a reaction onto the reply r of comment c, save()
AddReplyReaction(id, c, r, type) ==
  /\ id \in DOMAIN posts
  /\ "comments" \in DOMAIN posts[id]
  /\ c \in 1..Len(posts[id].comments)
  /\ r \in 1..Len(posts[id].comments[c].replies)
  /\ Len(posts[id].comments[c].replies[r].reactions) < MaxReactions
  /\ SavePost("update", id,
              [posts[id] EXCEPT
                 !.comments[c].replies[r].reactions = Append(@, type)],
              {"comments"})

\* update: load the post, assign undefined to reactions and comments, save()
UnsetPostLists(id) ==
  /\ id \in DOMAIN posts
  /\ SavePost("update", id, Unset(posts[id], {"reactions", "comments"}),
              {"reactions", "comments"})

\* time passes between two requests; a clock step counts as a step of the
\* trace
Tick ==
  /\ now < MaxNow
  /\ postOps < MaxPostOps
  /\ now' = now + 1
  /\ postOps' = postOps + 1
  /\ UNCHANGED <<posts, lastPost, categoryVars, reviewVars, orderVars,
               userVars, tagVars, productVars, slugRun, treeRun, calls>>

InitPost ==
  /\ posts = <<>>
  /\ lastPost = [op |-> "none", id |-> 0, slugArg |-> FALSE, result |-> "none",
                 frame |-> NoFrame]
  /\ postOps = 0
  /\ now = 0

NextPost ==
  \/ \E title \in PostTitleInputs, slug \in PostSlugInputs,
        content \in PostContentInputs, excerpt \in PostExcerptInputs,
        stats \in BOOLEAN :
       CreatePost(title, slug, content, excerpt, stats)
  \/ \E id \in 1..MaxPosts, title \in PostTitleInputs \cup {Omitted},
        content \in PostContentInputs \cup {Omitted} :
       EditPost(id, title, content)
  \/ \E id \in 1..MaxPosts : SetPostStats(id)
  \/ \E id \in 1..MaxPosts, type \in ReactionTypes : AddReaction(id, type)
  \/ \E id \in 1..MaxPosts : AddComment(id)
  \/ \E id \in 1..MaxPosts, c \in 1..MaxComments, type \in ReactionTypes :
       AddCommentReaction(id, c, type)
  \/ \E id \in 1..MaxPosts, c \in 1..MaxComments : AddCommentReply(id, c)
  \/ \E id \in 1..MaxPosts, c \in 1..MaxComments, r \in 1..MaxCommentReplies,
        type \in ReactionTypes :
       AddReplyReaction(id, c, r, type)
  \/ Tick

(***************************************************************************)
(* Order                                                                   *)
(***************************************************************************)

\* order numbers a caller passes (or none)
OrderNumberInputs == {Omitted, <<"N", "1">>, <<"N", "2">>}

\* quantities a caller passes for a line item
QuantityInputs == 0..MaxQuantity

OrderItemMinQuantity == 1

OrderStatuses == {"pending", "confirmed", "processing", "partially_shipped",
                  "shipped", "delivered", "completed", "cancelled", "refunded",
                  "on_hold", "failed"}

PaymentStatuses == {"pending", "paid", "partially_paid", "refunded",
                    "partially_refunded", "failed"}

FulfillmentStatuses == {"unfulfilled", "partially_fulfilled", "fulfilled", "returned"}

\* a value a caller passes for itemCount
SuppliedItemCount == 9

\* the text Math.random().toString(36).substr(2, 9).toUpperCase() may yield
RandomTexts == {<<"X">>, <<"Y">>}

\* schema validation of an order: orderNumber is required, and every line
\* item has a quantity of at least 1
OrderValid(doc) ==
  /\ doc.orderNumber # Undefined
  /\ doc.orderNumber # <<>>
  /\ \A i \in 1..Len(doc.items) : doc.items[i].quantity >= OrderItemMinQuantity

RECURSIVE SumQuantities(_)
\* items.reduce((sum, item) => sum + item.quantity, 0)
SumQuantities(items) ==
  IF items = <<>> THEN 0 ELSE Head(items).quantity + SumQuantities(Tail(items))

\* the middleware with a paid order confirmed on save
OrderPreSavePaidConfirms(doc, isNew, t, random) ==
  LET counted == [doc EXCEPT
                    !.itemCount = SumQuantities(doc.items),
                    !.status = IF doc.paymentStatus = "paid" /\ @ = "pending"
                               THEN "confirmed" ELSE @]
  IN  IF isNew /\ ~Truthy(counted.orderNumber)
      THEN [counted EXCEPT
              !.orderNumber = <<"O", "R", "D", "-">> \o TimestampText(t)
                                \o <<"-">> \o random]
      ELSE counted

\* the middleware with itemCount counting the line items
OrderPreSaveCountingLines(doc, isNew, t, random) ==
  LET counted == [doc EXCEPT !.itemCount = Len(doc.items)]
  IN  IF isNew /\ ~Truthy(counted.orderNumber)
      THEN [counted EXCEPT
              !.orderNumber = <<"O", "R", "D", "-">> \o TimestampText(t)
                                \o <<"-">> \o random]
      ELSE counted

\* orderSchema.pre('save'); t is Date.now(), random the random text
OrderPreSave(doc, isNew, t, random) ==
  LET counted == [doc EXCEPT !.itemCount = SumQuantities(doc.items)]
  IN  IF isNew /\ ~Truthy(counted.orderNumber)
      THEN [counted EXCEPT
              !.orderNumber = <<"O", "R", "D", "-">> \o TimestampText(t)
                                \o <<"-">> \o random]
      ELSE counted

\* Array.prototype.includes
Includes(array, value) == \E i \in 1..Len(array) : array[i] = value

\* the virtual with a paid order no longer cancellable
CanBeCancelledUnlessPaid(doc) ==
  /\ Includes(<<"pending", "confirmed", "on_hold">>, doc.status)
  /\ doc.paymentStatus # "paid"

\* orderSchema.virtual('canBeCancelled')
CanBeCancelled(doc) == Includes(<<"pending", "confirmed", "on_hold">>, doc.status)

\* the unique index on orderNumber
OrderNumberFree(id, orderNumber) ==
  \A other \in DOMAIN orders \ {id} : orders[other].orderNumber # orderNumber

\* outcome of document.save() for the order id: validation, then the
\* middleware, then the write
OrderSaveResult(id, doc, isNew, random) ==
  IF ~OrderValid(doc) THEN "ValidationError"
  ELSE IF ~OrderNumberFree(id, OrderPreSave(doc, isNew, now, random).orderNumber)
       THEN "DuplicateKey"
       ELSE "saved"

\* the collection after document.save() for the order id
OrdersAfterSave(id, doc, isNew, random) ==
  IF OrderSaveResult(id, doc, isNew, random) = "saved"
  THEN [i \in DOMAIN orders \cup {id} |->
          IF i = id THEN OrderPreSave(doc, isNew, now, random) ELSE orders[i]]
  ELSE orders

\* the document new Order({orderNumber, items, itemCount}) builds
NewOrder(orderNumber, items, itemCount) ==
  [orderNumber |-> IF orderNumber = Omitted THEN Undefined ELSE orderNumber,
   items |-> items,
   itemCount |-> IF itemCount THEN SuppliedItemCount ELSE 0,
   status |-> "pending",
   paymentStatus |-> "pending",
   fulfillmentStatus |-> "unfulfilled"]

\* one save of the order id, recorded in lastOrder
SaveOrder(op, id, doc, isNew, random, numberArg, itemCount) ==
  /\ orderOps < MaxOrderOps
  /\ orderOps' = orderOps + 1
  /\ orders' = OrdersAfterSave(id, doc, isNew, random)
  /\ lastOrder' = [op |-> op, id |-> id, numberArg |-> numberArg,
                   itemCountArg |-> itemCount,
                   result |-> OrderSaveResult(id, doc, isNew, random)]
  /\ UNCHANGED <<categoryVars, reviewVars, postVars, userVars, tagVars, productVars, slugRun, treeRun, calls>>

\* create: new Order({...}).save()
CreateOrder(orderNumber, items, itemCount, random) ==
  LET id == Cardinality(DOMAIN orders) + 1
  IN  /\ id \in 1..MaxOrders
      /\ SaveOrder("create", id, NewOrder(orderNumber, items, itemCount), TRUE,
                   random, orderNumber # Omitted, itemCount)

\* update: load the order id, replace it by doc, save(); the middleware draws
\* no random text for a document that is not new
UpdateOrder(id, doc, numberArg, itemCount) ==
  /\ id \in DOMAIN orders
  /\ SaveOrder("update", id, doc, FALSE, <<>>, numberArg, itemCount)

\* update: load the order, assign orderNumber, save()
SetOrderNumber(id, orderNumber) ==
  /\ id \in DOMAIN orders
  /\ orderNumber # Omitted
  /\ UpdateOrder(id, [orders[id] EXCEPT !.orderNumber = orderNumber], TRUE, FALSE)

\* update: load the order, push a line item, save()
AddItem(id, quantity) ==
  /\ id \in DOMAIN orders
  /\ Len(orders[id].items) < MaxItems
  /\ UpdateOrder(id, [orders[id] EXCEPT !.items = Append(@, [quantity |-> quantity])],
                 FALSE, FALSE)

\* update: load the order, assign itemCount, save()
SetItemCount(id) ==
  /\ id \in DOMAIN orders
  /\ UpdateOrder(id, [orders[id] EXCEPT !.itemCount = SuppliedItemCount], FALSE, TRUE)

\* update: load the order, assign status, save()
SetStatus(id, status) ==
  /\ id \in DOMAIN orders
  /\ UpdateOrder(id, [orders[id] EXCEPT !.status = status], FALSE, FALSE)

\* update: load the order, assign paymentStatus, save()
SetPaymentStatus(id, status) ==
  /\ id \in DOMAIN orders
  /\ UpdateOrder(id, [orders[id] EXCEPT !.paymentStatus = status], FALSE, FALSE)

\* update: load the order, assign fulfillmentStatus, save()
SetFulfillmentStatus(id, status) ==
  /\ id \in DOMAIN orders
  /\ UpdateOrder(id, [orders[id] EXCEPT !.fulfillmentStatus = status], FALSE, FALSE)

\* the line items a caller passes on create
ItemInputs == {<<>>} \cup {<<[quantity |-> q]>> : q \in QuantityInputs}

InitOrder ==
  /\ orders = <<>>
  /\ lastOrder = [op |-> "none", id |-> 0, numberArg |-> FALSE,
                  itemCountArg |-> FALSE, result |-> "none"]
  /\ orderOps = 0

NextOrder ==
  \/ \E orderNumber \in OrderNumberInputs, items \in ItemInputs,
        itemCount \in BOOLEAN, random \in RandomTexts :
       CreateOrder(orderNumber, items, itemCount, random)
  \/ \E id \in 1..MaxOrders, orderNumber \in OrderNumberInputs :
       SetOrderNumber(id, orderNumber)
  \/ \E id \in 1..MaxOrders, quantity \in QuantityInputs : AddItem(id, quantity)
  \/ \E id \in 1..MaxOrders : SetItemCount(id)
  \/ \E id \in 1..MaxOrders, status \in OrderStatuses : SetStatus(id, status)
  \/ \E id \in 1..MaxOrders, status \in PaymentStatuses : SetPaymentStatus(id, status)
  \/ \E id \in 1..MaxOrders, status \in FulfillmentStatuses :
       SetFulfillmentStatus(id, status)

(***************************************************************************)
(* User                                                                    *)
(***************************************************************************)

\* emails a caller passes for a user
UserEmailInputs == {<<"A", "@", "b", ".", "w">>, <<"a", "@", "b", ".", "w">>,
                    <<" ", "b", "@", "b", ".", "w">>, <<"a", "@", "b">>}

\* usernames a caller passes for a user
UserNameInputs == {<<"A", "b", "w">>, <<"b", "b", "w">>, <<"A", "b">>}

\* referral codes a caller passes for a user (or none)
ReferralCodeInputs == {Omitted, <<>>, <<"R">>}

UserNameMinLength == 3

\* match: /^\S+@\S+\.\S+$/
MatchesEmail(s) ==
  /\ \A i \in 1..Len(s) : s[i] \notin WhiteSpace
  /\ \E i, j \in 1..Len(s) :
       s[i] = "@" /\ s[j] = "." /\ i >= 2 /\ j >= i + 2 /\ j <= Len(s) - 1

\* schema validation of a user: email is required and matches the pattern,
\* username is required with at least 3 characters, and passwordHash,
\* profile.firstName and profile.lastName are required (complete tells
\* whether the caller passed valid ones)
UserValid(doc) ==
  /\ doc.email # <<>>
  /\ MatchesEmail(doc.email)
  /\ Len(doc.username) >= UserNameMinLength
  /\ doc.complete

\* ObjectId.toString().slice(-8).toUpperCase()
IdText(id) == <<CASE id = 1 -> "1" [] id = 2 -> "2" [] id = 3 -> "3" [] OTHER -> "0">>

\* the middleware without the isNew guard
UserPreSaveOnEverySave(doc, isNew, id) ==
  IF ~Truthy(doc.referralCode)
  THEN [doc EXCEPT !.referralCode = <<"R", "E", "F">> \o IdText(id)]
  ELSE doc

\* userSchema.pre('save')
UserPreSave(doc, isNew, id) ==
  IF isNew /\ ~Truthy(doc.referralCode)
  THEN [doc EXCEPT !.referralCode = <<"R", "E", "F">> \o IdText(id)]
  ELSE doc

\* the unique index that rejects the write of doc for the user id, "none" if
\* none does; the indexes are checked in the order the schema declares them,
\* and the sparse index on referralCode skips documents without the path
UserIndexHit(id, doc) ==
  LET others == DOMAIN users \ {id}
  IN  IF \E o \in others : users[o].email = doc.email THEN "email"
      ELSE IF \E o \in others : users[o].username = doc.username THEN "username"
      ELSE IF /\ doc.referralCode # Undefined
              /\ \E o \in others : users[o].referralCode = doc.referralCode
           THEN "referralCode"
           ELSE "none"

\* outcome of document.save() for the user id
UserSaveResult(id, doc, isNew) ==
  IF ~UserValid(doc) THEN "ValidationError"
  ELSE IF UserIndexHit(id, UserPreSave(doc, isNew, id)) # "none" THEN "DuplicateKey"
       ELSE "saved"

\* the document new User({...}) builds, with email kept as the caller wrote it
NewUserKeepingCase(email, username, referralCode, complete) ==
  [email |-> Trim(email),
   username |-> LowerTrimSetter(username),
   referralCode |-> IF referralCode = Omitted THEN Undefined ELSE referralCode,
   complete |-> complete]

\* the document new User({email, username, referralCode, ...}) builds
NewUser(email, username, referralCode, complete) ==
  [email |-> LowerTrimSetter(email),
   username |-> LowerTrimSetter(username),
   referralCode |-> IF referralCode = Omitted THEN Undefined ELSE referralCode,
   complete |-> complete]

\* one save of the user id, recorded in lastUser
SaveUser(op, id, doc, isNew, email) ==
  /\ userOps < MaxUserOps
  /\ userOps' = userOps + 1
  /\ users' = IF UserSaveResult(id, doc, isNew) = "saved"
               THEN [i \in DOMAIN users \cup {id} |->
                       IF i = id THEN UserPreSave(doc, isNew, id) ELSE users[i]]
               ELSE users
  /\ lastUser' = [op |-> op, id |-> id, email |-> email, username |-> doc.username,
                  referralCode |-> doc.referralCode,
                  result |-> UserSaveResult(id, doc, isNew),
                  field |-> IF UserValid(doc)
                            THEN UserIndexHit(id, UserPreSave(doc, isNew, id))
                            ELSE "none"]
  /\ UNCHANGED <<categoryVars, reviewVars, postVars, orderVars, tagVars, productVars,
                 slugRun, treeRun, calls>>

\* create: new User({...}).save()
CreateUser(email, username, referralCode, complete) ==
  LET id == Cardinality(DOMAIN users) + 1
  IN  /\ id \in 1..MaxUsers
      /\ SaveUser("create", id, NewUser(email, username, referralCode, complete),
                  TRUE, email)

\* update: load the user, assign email, save()
SetEmail(id, email) ==
  /\ id \in DOMAIN users
  /\ SaveUser("update", id, [users[id] EXCEPT !.email = LowerTrimSetter(email)],
              FALSE, email)

\* update: load the user, assign referralCode (undefined unsets it), save()
SetReferralCode(id, referralCode) ==
  /\ id \in DOMAIN users
  /\ SaveUser("setReferralCode", id,
              [users[id] EXCEPT !.referralCode = IF referralCode = Omitted
                                                 THEN Undefined ELSE referralCode],
              FALSE, users[id].email)

\* userSchema.statics.findByEmail: the users findOne may return
FindByEmail(email) == {u \in DOMAIN users : users[u].email = ToLowerCase(email)}

InitUser ==
  /\ users = <<>>
  /\ lastUser = [op |-> "none", id |-> 0, email |-> <<>>, username |-> <<>>,
                 referralCode |-> Undefined,
                 result |-> "none", field |-> "none"]
  /\ userOps = 0

NextUser ==
  \/ \E email \in UserEmailInputs, username \in UserNameInputs,
        referralCode \in ReferralCodeInputs, complete \in BOOLEAN :
       CreateUser(email, username, referralCode, complete)
  \/ \E id \in 1..MaxUsers, email \in UserEmailInputs : SetEmail(id, email)
  \/ \E id \in 1..MaxUsers, referralCode \in ReferralCodeInputs :
       SetReferralCode(id, referralCode)

(***************************************************************************)
(* Tag                                                                     *)
(***************************************************************************)

\* names a caller passes for a tag
TagNameInputs == {<<"A", "-">>, <<"-", "a">>, <<"A">>}

\* slugs a caller passes for a tag (or none)
TagSlugInputs == {Omitted, <<"B">>}

\* values a caller passes for stats.productCount and stats.postCount
TagCountInputs == {0, 2}

TagNameMinLength == 2

\* schema validation of a tag: name is required with at least 2 characters
TagValid(doc) == Len(doc.name) >= TagNameMinLength

\* the middleware with totalUsage counting the products only
TagPreSaveProductsOnly(doc, modified) ==
  LET withSlug == IF "name" \in modified /\ ~Truthy(doc.slug)
                  THEN [doc EXCEPT !.slug = Slugify(doc.name)]
                  ELSE doc
  IN  [withSlug EXCEPT !.stats.totalUsage = withSlug.stats.productCount]

\* tagSchema.pre('save')
TagPreSave(doc, modified) ==
  LET withSlug == IF "name" \in modified /\ ~Truthy(doc.slug)
                  THEN [doc EXCEPT !.slug = Slugify(doc.name)]
                  ELSE doc
  IN  [withSlug EXCEPT
         !.stats.totalUsage = withSlug.stats.productCount + withSlug.stats.postCount]

\* the unique index on slug: no other stored tag holds the slug
TagSlugFree(id, slug) == \A other \in DOMAIN tags \ {id} : tags[other].slug # slug

\* outcome of document.save() for the tag id
TagSaveResult(id, doc, modified) ==
  IF ~TagValid(doc) THEN "ValidationError"
  ELSE IF ~TagSlugFree(id, TagPreSave(doc, modified).slug) THEN "DuplicateKey"
       ELSE "saved"

\* the document new Tag({name, slug, stats}) builds; total tells whether the
\* caller passed a stats.totalUsage of its own
NewTag(name, slug, productCount, postCount, total) ==
  [name |-> Trim(name),
   slug |-> IF slug = Omitted THEN Undefined ELSE LowerTrimSetter(slug),
   stats |-> [productCount |-> productCount, postCount |-> postCount,
              totalUsage |-> IF total THEN SuppliedCount ELSE 0]]

\* the paths of stats tagSchema.pre('save') assigns whatever they hold; slug
\* is assigned only when it holds nothing
TagDerivedPaths == {"totalUsage"}

\* one save of the tag id, recorded in lastTag
SaveTag(op, id, doc, modified, total) ==
  /\ tagOps < MaxTagOps
  /\ tagOps' = tagOps + 1
  /\ tags' = IF TagSaveResult(id, doc, modified) = "saved"
              THEN [i \in DOMAIN tags \cup {id} |->
                      IF i = id THEN TagPreSave(doc, modified) ELSE tags[i]]
              ELSE tags
  /\ lastTag' = [op |-> op, id |-> id, totalArg |-> total,
                 result |-> TagSaveResult(id, doc, modified),
                 frame |-> IF TagSaveResult(id, doc, modified) = "saved"
                           THEN [doc EXCEPT !.stats = Frame(@, TagDerivedPaths)]
                           ELSE NoFrame]
  /\ UNCHANGED <<categoryVars, reviewVars, postVars, orderVars, userVars, productVars,
                 slugRun, treeRun, calls>>

\* create: new Tag({...}).save()
CreateTag(name, slug, productCount, postCount, total) ==
  LET id == Cardinality(DOMAIN tags) + 1
  IN  /\ id \in 1..MaxTags
      /\ SaveTag("create", id, NewTag(name, slug, productCount, postCount, total),
                 {"name", "stats"} \cup (IF slug = Omitted THEN {} ELSE {"slug"}),
                 total)

\* update: load the tag, assign name, save()
RenameTag(id, name) ==
  /\ id \in DOMAIN tags
  /\ SaveTag("update", id, [tags[id] EXCEPT !.name = Trim(name)],
             IF Trim(name) # tags[id].name THEN {"name"} ELSE {}, FALSE)

\* update: load the tag, assign the three stats, save()
SetTagStats(id, productCount, postCount) ==
  /\ id \in DOMAIN tags
  /\ SaveTag("update", id,
             [tags[id] EXCEPT !.stats = [productCount |-> productCount,
                                         postCount |-> postCount,
                                         totalUsage |-> SuppliedCount]],
             {"stats"}, TRUE)

InitTag ==
  /\ tags = <<>>
  /\ lastTag = [op |-> "none", id |-> 0, totalArg |-> FALSE, result |-> "none",
                frame |-> NoFrame]
  /\ tagOps = 0

NextTag ==
  \/ \E name \in TagNameInputs, slug \in TagSlugInputs,
        productCount \in TagCountInputs, postCount \in TagCountInputs,
        total \in BOOLEAN :
       CreateTag(name, slug, productCount, postCount, total)
  \/ \E id \in 1..MaxTags, name \in TagNameInputs : RenameTag(id, name)
  \/ \E id \in 1..MaxTags, productCount \in TagCountInputs,
        postCount \in TagCountInputs :
       SetTagStats(id, productCount, postCount)

(***************************************************************************)
(* Tag.findOrCreate                                                        *)
(***************************************************************************)
\* names the callers of findOrCreate pass
FindOrCreateNames == {<<"A", "-">>, <<"-", "a">>, <<"b", "b">>}

\* no call of findOrCreate has been made
NoCalls == <<>>

\* a caller calls findOrCreate(name): the slug is computed and the query
\* findOne({ slug }) is sent
CallFindOrCreate(name) ==
  /\ Len(calls) < MaxCalls
  /\ calls' = Append(calls, [pc |-> "findOne", name |-> name,
                             slug |-> StripEdgeHyphens(ReplaceNonAlnumRuns(ToLowerCase(name))),
                             tag |-> 0, result |-> "pending"])
  /\ UNCHANGED <<categoryVars, reviewVars, postVars, orderVars, userVars, tagVars,
                 productVars, slugRun, treeRun>>

\* findOne({ slug }) resolves for the call p: with the stored tag, which the
\* call returns, or with null, and the call goes on to create
FindOneResolves(p) ==
  /\ p \in DOMAIN calls
  /\ calls[p].pc = "findOne"
  /\ LET found == {t \in DOMAIN tags : tags[t].slug = calls[p].slug}
     IN  calls' = [calls EXCEPT
                     ![p] = IF found = {}
                            THEN [@ EXCEPT !.pc = "create"]
                            ELSE [@ EXCEPT !.pc = "done", !.result = "returned",
                                           !.tag = CHOOSE t \in found : TRUE]]
  /\ UNCHANGED <<categoryVars, reviewVars, postVars, orderVars, userVars, tagVars,
                 productVars, slugRun, treeRun>>

\* this.create({ name, slug, type }) resolves for the call p: the tag is
\* stored and returned, or the save fails and the call rejects with its error
CreateResolves(p) ==
  /\ p \in DOMAIN calls
  /\ calls[p].pc = "create"
  /\ LET id == Cardinality(DOMAIN tags) + 1
         doc == NewTag(calls[p].name, calls[p].slug, 0, 0, FALSE)
         result == TagSaveResult(id, doc, {"name", "slug"})
     IN  /\ id \in 1..MaxTags
         /\ tags' = IF result = "saved"
                     THEN [i \in DOMAIN tags \cup {id} |->
                             IF i = id THEN TagPreSave(doc, {"name", "slug"})
                             ELSE tags[i]]
                     ELSE tags
         /\ calls' = [calls EXCEPT
                        ![p] = [@ EXCEPT !.pc = "done",
                                        !.result = IF result = "saved"
                                                   THEN "returned" ELSE result,
                                        !.tag = IF result = "saved" THEN id ELSE 0]]
  /\ UNCHANGED <<lastTag, tagOps, categoryVars, reviewVars, postVars, orderVars,
                 userVars, productVars, slugRun, treeRun>>

\* concurrent calls of findOrCreate, their queries resolving in any order
NextFindOrCreate ==
  \/ \E name \in FindOrCreateNames : CallFindOrCreate(name)
  \/ \E p \in 1..MaxCalls : FindOneResolves(p)
  \/ \E p \in 1..MaxCalls : CreateResolves(p)

(***************************************************************************)
(* Product                                                                 *)
(***************************************************************************)

\* names a caller passes for a product
ProductNameInputs == {<<"A", "-">>, <<"-", "a">>, <<"A">>}

\* slugs a caller passes for a product (or none)
ProductSlugInputs == {Omitted, <<"B">>}

\* SKUs a caller passes for a product
ProductSkuInputs == {<<"a">>, <<"B">>}

\* pricing.compareAtPrice when the caller passes none
NoPrice == -1

\* values a caller passes for pricing.compareAtPrice (or none)
CompareAtPriceInputs == {NoPrice, 1, 3}

\* the pricing.basePrice the callers pass
BasePriceInput == 2

\* promotion lists a caller passes: none, or one promotion with its window
PromotionInputs == {<<>>, <<[startDate |-> 0, endDate |-> 0]>>,
                    <<[startDate |-> 1, endDate |-> 1]>>}

\* variant lists a caller passes
VariantInputs == {<<>>, <<[sku |-> <<"V">>]>>}

ProductNameMinLength == 2

\* String.prototype.toUpperCase, one character
UpperChar(c) ==
  CASE c = "a" -> "A"
    [] c = "b" -> "B"
    [] OTHER -> c

\* the setters of a String path declared uppercase: true, trim: true
UpperTrimSetter(s) == Trim([i \in 1..Len(s) |-> UpperChar(s[i])])

\* schema validation of a product: name is required with at least 2
\* characters; sku, category and pricing.basePrice are passed by every caller
ProductValid(doc) == Len(doc.name) >= ProductNameMinLength

\* promotions?.some(p => p.startDate <= now && p.endDate >= now) ||
\* (compareAtPrice && compareAtPrice > basePrice); undefined and 0 are stored
\* as not on sale
IsOnSaleAt(doc, t) ==
  \/ \E i \in 1..ListLength(doc, "promotions") :
       doc.promotions[i].startDate <= t /\ doc.promotions[i].endDate >= t
  \/ /\ doc.pricing.compareAtPrice # NoPrice
     /\ doc.pricing.compareAtPrice # 0
     /\ doc.pricing.compareAtPrice > doc.pricing.basePrice

\* productSchema.pre('save'); t is new Date()
ProductPreSave(doc, modified, t) ==
  LET withSlug == IF "name" \in modified /\ ~Truthy(doc.slug)
                  THEN [doc EXCEPT !.slug = Slugify(doc.name)]
                  ELSE doc
  IN  [withSlug EXCEPT !.hasVariants = ListLength(withSlug, "variants") > 0,
                       !.flags.isOnSale = IsOnSaleAt(withSlug, t)]

\* the paths productSchema.pre('save') assigns whatever they hold; slug is
\* assigned only when it holds nothing
ProductDerivedPaths == {"hasVariants", "flags"}

\* the unique index that rejects the write of doc for the product id, "none"
\* if none does: slug, sku, and the sparse index on variants.sku
ProductIndexHit(id, doc) ==
  LET others == DOMAIN products \ {id}
  IN  IF \E o \in others : products[o].slug = doc.slug THEN "slug"
      ELSE IF \E o \in others : products[o].sku = doc.sku THEN "sku"
      ELSE IF \E o \in others :
                \E i \in 1..ListLength(products[o], "variants"),
                   j \in 1..ListLength(doc, "variants") :
                  products[o].variants[i].sku = doc.variants[j].sku
           THEN "variants.sku"
           ELSE "none"

\* outcome of document.save() for the product id
ProductSaveResult(id, doc, modified) ==
  IF ~ProductValid(doc) THEN "ValidationError"
  ELSE IF ProductIndexHit(id, ProductPreSave(doc, modified, now)) # "none"
       THEN "DuplicateKey"
       ELSE "saved"

\* the document new Product({name, slug, sku, pricing, ...}) builds
NewProduct(name, slug, sku, compareAtPrice) ==
  [name |-> Trim(name),
   slug |-> IF slug = Omitted THEN Undefined ELSE LowerTrimSetter(slug),
   sku |-> UpperTrimSetter(sku),
   pricing |-> [basePrice |-> BasePriceInput, compareAtPrice |-> compareAtPrice],
   variants |-> <<>>,
   hasVariants |-> FALSE,
   promotions |-> <<>>,
   flags |-> [isOnSale |-> FALSE]]

\* one save of the product id, recorded in lastProduct
SaveProduct(op, id, doc, modified) ==
  /\ productOps < MaxProductOps
  /\ productOps' = productOps + 1
  /\ products' = IF ProductSaveResult(id, doc, modified) = "saved"
                  THEN [i \in DOMAIN products \cup {id} |->
                          IF i = id THEN ProductPreSave(doc, modified, now)
                          ELSE products[i]]
                  ELSE products
  /\ lastProduct' = [op |-> op, id |-> id,
                     result |-> ProductSaveResult(id, doc, modified),
                     frame |-> IF ProductSaveResult(id, doc, modified) = "saved"
                               THEN Frame(doc, ProductDerivedPaths) ELSE NoFrame]
  /\ UNCHANGED <<categoryVars, reviewVars, postVars, orderVars, userVars, tagVars,
                 slugRun, treeRun, calls>>

\* create: new Product({...}).save()
CreateProduct(name, slug, sku, compareAtPrice) ==
  LET id == Cardinality(DOMAIN products) + 1
  IN  /\ id \in 1..MaxProducts
      /\ SaveProduct("create", id, NewProduct(name, slug, sku, compareAtPrice),
                     {"name", "sku", "pricing"}
                       \cup (IF slug = Omitted THEN {} ELSE {"slug"}))

\* update: load the product, assign name, save()
RenameProduct(id, name) ==
  /\ id \in DOMAIN products
  /\ SaveProduct("update", id, [products[id] EXCEPT !.name = Trim(name)],
                 IF Trim(name) # products[id].name THEN {"name"} ELSE {})

\* update: load the product, assign pricing.compareAtPrice, save()
SetCompareAtPrice(id, compareAtPrice) ==
  /\ id \in DOMAIN products
  /\ SaveProduct("update", id,
                 [products[id] EXCEPT !.pricing.compareAtPrice = compareAtPrice],
                 {"pricing"})

\* update: load the product, assign promotions, save()
SetPromotions(id, promotions) ==
  /\ id \in DOMAIN products
  /\ "promotions" \in DOMAIN products[id]
  /\ SaveProduct("update", id, [products[id] EXCEPT !.promotions = promotions],
                 {"promotions"})

\* update: load the product, assign variants, save()
SetVariants(id, variants) ==
  /\ id \in DOMAIN products
  /\ "variants" \in DOMAIN products[id]
  /\ SaveProduct("update", id, [products[id] EXCEPT !.variants = variants],
                 {"variants"})

\* update: load the product, assign undefined to variants and promotions,
\* save()
UnsetProductLists(id) ==
  /\ id \in DOMAIN products
  /\ SaveProduct("update", id, Unset(products[id], {"variants", "promotions"}),
                 {"variants", "promotions"})

InitProduct ==
  /\ products = <<>>
  /\ lastProduct = [op |-> "none", id |-> 0, result |-> "none", frame |-> NoFrame]
  /\ productOps = 0

\* the saves of products
ProductSaves ==
  \/ \E name \in ProductNameInputs, slug \in ProductSlugInputs,
        sku \in ProductSkuInputs, compareAtPrice \in CompareAtPriceInputs :
       CreateProduct(name, slug, sku, compareAtPrice)
  \/ \E id \in 1..MaxProducts, name \in ProductNameInputs : RenameProduct(id, name)
  \/ \E id \in 1..MaxProducts, compareAtPrice \in CompareAtPriceInputs :
       SetCompareAtPrice(id, compareAtPrice)
  \/ \E id \in 1..MaxProducts, promotions \in PromotionInputs :
       SetPromotions(id, promotions)
  \/ \E id \in 1..MaxProducts, variants \in VariantInputs : SetVariants(id, variants)

NextProduct == ProductSaves \/ Tick

(***************************************************************************)
(* The slug transformation on its own                                      *)
(***************************************************************************)
\* characters of the texts a slug is made from: a capital, a small letter, a
\* hyphen, a blank and a digit
SlugAlphabet == {"A", "b", "-", " ", "1"}

\* the texts a caller passes as a name
SlugInputs == UNION {[1..n -> SlugAlphabet] : n \in 0..MaxSlugLength}

\* no text has been passed yet
NoSlugRun == [input |-> <<>>, text |-> <<>>, passes |-> 0]

\* the slug of a text is used as the text of the next call
ApplySlugify ==
  /\ slugRun.passes < MaxSlugPasses
  /\ slugRun' = [slugRun EXCEPT !.text = Slugify(@), !.passes = @ + 1]
  /\ UNCHANGED <<categoryVars, reviewVars, postVars, orderVars, userVars, tagVars,
                 productVars, treeRun, calls>>

InitCollections ==
  InitCategory /\ InitReview /\ InitPost /\ InitOrder /\ InitUser /\ InitTag
    /\ InitProduct

Init == InitCollections /\ slugRun = NoSlugRun /\ treeRun = NoTreeRun /\ calls = NoCalls

InitSlugify ==
  /\ InitCollections
  /\ slugRun \in {[input |-> s, text |-> s, passes |-> 0] : s \in SlugInputs}
  /\ treeRun = NoTreeRun
  /\ calls = NoCalls

SpecUser == Init /\ [][NextUser]_vars

SpecTree == Init /\ [][NextTree]_vars

SpecFindOrCreate == Init /\ [][NextFindOrCreate]_vars

\* buildTree is synchronous code: once started it runs to its end
SpecTreeFair == SpecTree /\ WF_vars(BuildTreeStep)


SpecTag == Init /\ [][NextTag]_vars

SpecProduct == Init /\ [][NextProduct]_vars

\* the saves that set names and slugs of root categories, of tags and of
\* products, MaxSluggedOps of them in all
NextSlugged ==
  /\ categoryOps + tagOps + productOps < MaxSluggedOps
  /\ \/ \E name \in CategoryNameInputs, slug \in CategorySlugInputs :
          CreateCategory(name, slug, NullParent)
     \/ \E id \in 1..MaxCategories, name \in CategoryNameInputs,
           slug \in CategorySlugInputs :
          UpdateCategory(id, name, slug, OmittedParent)
     \/ \E name \in TagNameInputs, slug \in TagSlugInputs :
          CreateTag(name, slug, 0, 0, FALSE)
     \/ \E id \in 1..MaxTags, name \in TagNameInputs : RenameTag(id, name)
     \/ \E name \in ProductNameInputs, slug \in ProductSlugInputs,
           sku \in ProductSkuInputs :
          CreateProduct(name, slug, sku, NoPrice)
     \/ \E id \in 1..MaxProducts, name \in ProductNameInputs :
          RenameProduct(id, name)

SpecSlugged == Init /\ [][NextSlugged]_vars

\* names a caller passes on create and on rename: their slugs are a, bb and
\* the empty string
RenameInputs == {<<"A", "-">>, <<"b", "b">>, <<"-", "-">>}

\* creates, and the saves that assign nothing but name, of categories, tags
\* and products, MaxRenamedOps of them in all
NextRenamed ==
  /\ categoryOps + tagOps + productOps < MaxRenamedOps
  /\ \/ \E name \in RenameInputs, slug \in CategorySlugInputs,
           parent \in {NullParent, 1} :
          CreateCategory(name, slug, parent)
     \/ \E id \in 1..MaxCategories, name \in RenameInputs :
          UpdateCategory(id, name, Omitted, OmittedParent)
     \/ \E name \in RenameInputs, slug \in TagSlugInputs :
          CreateTag(name, slug, 0, 0, FALSE)
     \/ \E id \in 1..MaxTags, name \in RenameInputs : RenameTag(id, name)
     \/ \E name \in RenameInputs, slug \in ProductSlugInputs,
           sku \in ProductSkuInputs :
          CreateProduct(name, slug, sku, NoPrice)
     \/ \E id \in 1..MaxProducts, name \in RenameInputs : RenameProduct(id, name)

SpecRenamed == Init /\ [][NextRenamed]_vars

\* the saves that reach the middleware of reviews, posts, tags and products
\* with nested collections filled, empty and unset, MaxDerivedOps of them in
\* all
NextDerived ==
  /\ reviewOps + postOps + tagOps + productOps < MaxDerivedOps
  /\ \/ \E votes \in VoteInputs, counts \in BOOLEAN :
          CreateReview("product", {"product"}, votes, counts)
     \/ \E id \in 1..MaxReviews, type \in VoteTypes : AddVote(id, type)
     \/ \E id \in 1..MaxReviews, reply \in ReplyInputs : AddReviewReply(id, reply)
     \/ \E id \in 1..MaxReviews : AddFlag(id)
     \/ \E id \in 1..MaxReviews : UnsetReviewLists(id)
     \/ \E slug \in PostSlugInputs, excerpt \in PostExcerptInputs, stats \in BOOLEAN :
          CreatePost(<<"A", "-", "b">>, slug, <<" ", "w", " ", " ", "w">>, excerpt, stats)
     \/ \E id \in 1..MaxPosts, type \in ReactionTypes : AddReaction(id, type)
     \/ \E id \in 1..MaxPosts : AddComment(id)
     \/ \E id \in 1..MaxPosts : UnsetPostLists(id)
     \/ \E slug \in TagSlugInputs, total \in BOOLEAN :
          CreateTag(<<"A", "-">>, slug, 0, 2, total)
     \/ \E slug \in ProductSlugInputs, compareAtPrice \in CompareAtPriceInputs :
          CreateProduct(<<"A", "-">>, slug, <<"a">>, compareAtPrice)
     \/ \E id \in 1..MaxProducts, promotions \in PromotionInputs :
          SetPromotions(id, promotions)
     \/ \E id \in 1..MaxProducts, variants \in VariantInputs : SetVariants(id, variants)
     \/ \E id \in 1..MaxProducts : UnsetProductLists(id)

SpecDerived == Init /\ [][NextDerived]_vars

SpecSlugify == InitSlugify /\ [][ApplySlugify]_vars

SpecCategory == Init /\ [][NextCategory]_vars

SpecReview == Init /\ [][NextReview]_vars

SpecPost == Init /\ [][NextPost]_vars

SpecOrder == Init /\ [][NextOrder]_vars

(***************************************************************************)
(* User claims                                                             *)
(***************************************************************************)
\* C16: a create, passing validation, of a second user whose email equals a
\* stored user's email up to letter case fails with a duplicate error on
\* email, and the stored users are unchanged by it.
C16_DuplicateEmail ==
  [][/\ userOps' = userOps + 1
     /\ lastUser'.op = "create"
     /\ lastUser'.result # "ValidationError"
     /\ \E u \in DOMAIN users :
          ToLowerCase(users[u].email) = ToLowerCase(lastUser'.email)
     => /\ lastUser'.result = "DuplicateKey"
        /\ lastUser'.field = "email"
        /\ users' = users]_vars

\* the create of a user with email 'A@b.w' and a username of its own has just
\* failed on the email of the stored user 'a@b.w', whom findByEmail finds
C16_Witness ==
  /\ lastUser.op = "create"
  /\ lastUser.email = <<"A", "@", "b", ".", "w">>
  /\ lastUser.result = "DuplicateKey"
  /\ lastUser.field = "email"
  /\ DOMAIN users = {1}
  /\ users[1].email = <<"a", "@", "b", ".", "w">>
  /\ users[1].username # lastUser.username
  /\ FindByEmail(lastUser.email) = {1}

LastTagDoc == tags[lastTag.id]

\* C18: after any save of a tag, stats.totalUsage = stats.productCount +
\* stats.postCount, whatever totalUsage the caller passed.
C18_TotalUsageIsSum ==
  \A t \in DOMAIN tags :
    tags[t].stats.totalUsage = tags[t].stats.productCount + tags[t].stats.postCount

\* the caller has just saved a tag with productCount 2 and postCount 2, passing
\* 7 for totalUsage
C18_Witness ==
  /\ lastTag.result = "saved"
  /\ lastTag.totalArg
  /\ LastTagDoc.stats.productCount = 2
  /\ LastTagDoc.stats.postCount = 2
  /\ LastTagDoc.stats.totalUsage = 4

\* C25: two concurrent calls of findOrCreate whose names have the same slug
\* both return, with the same tag, and exactly one tag with that slug is
\* stored afterwards, in whatever order their queries resolve.
C25_BothCallsReturnOneTag ==
  \A p, q \in DOMAIN calls :
    p # q /\ calls[p].slug = calls[q].slug
      /\ calls[p].pc = "done" /\ calls[q].pc = "done"
    => /\ calls[p].result = "returned"
       /\ calls[q].result = "returned"
       /\ calls[p].tag = calls[q].tag
       /\ Cardinality({t \in DOMAIN tags : tags[t].slug = calls[p].slug}) = 1

(***************************************************************************)
(* Product claims                                                          *)
(***************************************************************************)
\* C19: at every moment a stored product's flags.isOnSale is true if and
\* only if the window of one of its promotions contains the current time or
\* pricing.compareAtPrice > pricing.basePrice, also as time passes after the
\* last save.
C19_OnSaleNow ==
  \A p \in DOMAIN products :
    products[p].flags.isOnSale <=>
      \/ \E i \in 1..Len(products[p].promotions) :
           /\ products[p].promotions[i].startDate <= now
           /\ now <= products[p].promotions[i].endDate
      \/ /\ products[p].pricing.compareAtPrice # NoPrice
         /\ products[p].pricing.compareAtPrice > products[p].pricing.basePrice

(***************************************************************************)
(* Slug claims                                                             *)
(***************************************************************************)
\* C14: the slug transformation (lowercase, each run of characters outside
\* a-z0-9 replaced by one hyphen, a leading and a trailing hyphen stripped) is
\* idempotent: applied to its own output it returns the same string.
C14_SlugifyIdempotent ==
  [][slugRun.passes >= 1 => slugRun'.text = slugRun.text]_vars

\* the text 'A -b' has been slugified twice, giving 'a-b'
C14_Witness ==
  /\ slugRun.passes = 2
  /\ slugRun.input = <<"A", " ", "-", "b">>
  /\ slugRun.text = <<"a", "-", "b">>

\* no two documents of one collection share a slug
SlugsUnique(collection) ==
  \A a, b \in DOMAIN collection : a # b => collection[a].slug # collection[b].slug

\* the step creates, from name and without a slug of the caller's, a document
\* that passes validation: it fails with a duplicate error and stores nothing
\* when another document holds the slugified name, and a document it stores
\* has the slugified name as its slug
BareSlugOrDuplicate(name, collection, after, last) ==
  /\ last.result # "ValidationError"
       /\ (\E other \in DOMAIN collection : collection[other].slug = Slugify(Trim(name)))
       => last.result = "DuplicateKey" /\ after = collection
  /\ last.result = "saved" => after[last.id].slug = Slugify(Trim(name))

\* C17: creating a category, product or tag (without a slug of the caller's,
\* passing validation) whose name slugifies to a slug held by another document
\* of the collection fails with a duplicate error; the generated slug is
\* never altered to make it unique; and no two documents of one collection
\* ever share a slug.
C17_DuplicateSlugFails ==
  [][/\ \A name \in CategoryNameInputs :
          CreateCategory(name, Omitted, NullParent)
            => BareSlugOrDuplicate(name, categories, categories', lastCategory')
     /\ \A name \in TagNameInputs :
          CreateTag(name, Omitted, 0, 0, FALSE)
            => BareSlugOrDuplicate(name, tags, tags', lastTag')
     /\ \A name \in ProductNameInputs :
          (\E sku \in ProductSkuInputs : CreateProduct(name, Omitted, sku, NoPrice))
            => BareSlugOrDuplicate(name, products, products', lastProduct')
     /\ SlugsUnique(categories') /\ SlugsUnique(tags') /\ SlugsUnique(products')]_vars

\* the create of a second category has just failed on the slug 'a' that the
\* first one got from its name
C17_Witness ==
  /\ lastCategory.op = "create"
  /\ lastCategory.id = 2
  /\ lastCategory.result = "DuplicateKey"
  /\ DOMAIN categories = {1}
  /\ categories[1].name = <<"A", "-">>
  /\ categories[1].slug = <<"a">>

(***************************************************************************)
(* Category claims                                                         *)
(***************************************************************************)
\* the category the last save was about, as stored
LastCategoryDoc == categories[lastCategory.id]

\* the step is a successful save in which the caller passed the stored
\* category parent as the saved category's parent
SavedWithParentArg(parent) ==
  /\ lastCategory'.result = "saved"
  /\ lastCategory'.parentArg # "omitted"
  /\ categories'[lastCategory'.id].parent = parent

\* the saved category's level and ancestors follow from the values its
\* parent had when the save started
FollowsParentAtSave(parent) ==
  /\ categories'[lastCategory'.id].level = categories[parent].level + 1
  /\ categories'[lastCategory'.id].ancestors = categories[parent].ancestors \o <<parent>>

StoredBeforeLastSave ==
  IF lastCategory.op = "create" THEN DOMAIN categories \ {lastCategory.id}
  ELSE DOMAIN categories

\* C2: a category created as a root (parent null or not passed) is stored with
\* ancestors = [], level = 0 and path = its slug; a category created under an
\* existing parent P is stored with path = P.path + "/" + its slug.
C2_CreatedPath ==
  lastCategory.op = "create" /\ lastCategory.result = "saved" =>
    /\ LastCategoryDoc.parent = NullParent =>
         /\ LastCategoryDoc.ancestors = <<>>
         /\ LastCategoryDoc.level = 0
         /\ LastCategoryDoc.path = LastCategoryDoc.slug
    /\ LastCategoryDoc.parent \in StoredBeforeLastSave =>
         LastCategoryDoc.path =
           categories[LastCategoryDoc.parent].path \o <<"/">> \o LastCategoryDoc.slug

\* C3: a save whose parent refers to a category that does not exist fails, so
\* the category a save has just stored has a null parent or one that existed
\* when the save began.
C3_NoDanglingParent ==
  lastCategory.result = "saved" =>
    LastCategoryDoc.parent \in {NullParent} \cup StoredBeforeLastSave

\* C4: in every reachable state every stored category with parent P has
\* ancestors = P.ancestors + [P], level = P.level + 1 and
\* path = P.path + "/" + slug for P's current values, and every root has
\* ancestors = [], level = 0 and path = slug.
C4_LiveParentChain ==
  \A c \in DOMAIN categories :
    LET doc == categories[c]
    IN  IF doc.parent = NullParent
        THEN doc.ancestors = <<>> /\ doc.level = 0 /\ doc.path = doc.slug
        ELSE /\ doc.parent \in DOMAIN categories
             /\ doc.ancestors = categories[doc.parent].ancestors \o <<doc.parent>>
             /\ doc.level = categories[doc.parent].level + 1
             /\ doc.path = categories[doc.parent].path \o <<"/">> \o doc.slug

\* the derived hierarchy fields of a category
Hierarchy(doc) == <<doc.ancestors, doc.level, doc.path>>

\* C5: a save of category A leaves ancestors, level and path of every other
\* category unchanged, and a category's own ancestors, level and path change
\* only in a save of that category with a modified parent.
C5_OthersKeepHierarchy ==
  [][\A c \in DOMAIN categories :
       Hierarchy(categories'[c]) # Hierarchy(categories[c])
         => lastCategory'.id = c /\ lastCategory'.parentArg = "modified"]_vars

\* an update has just changed the slug of a category whose child keeps the
\* path built from the old slug
C5_Witness ==
  /\ lastCategory.op = "update"
  /\ lastCategory.result = "saved"
  /\ LastCategoryDoc.slug = <<"b">>
  /\ \E c \in DOMAIN categories \ {lastCategory.id} :
       /\ categories[c].parent = lastCategory.id
       /\ categories[c].path = <<"a", "/">> \o categories[c].slug

\* C26: after any sequence of category creates and parent changes no
\* category is its own parent and no category's id is in its own ancestors.
C26_NoParentCycle ==
  \A c \in DOMAIN categories :
    /\ categories[c].parent # c
    /\ \A i \in DOMAIN categories[c].ancestors : categories[c].ancestors[i] # c

\* C27: callers setting only name, slug and parent of categories (never
\* ancestors or level), every stored category has level = the length of its
\* ancestors.
C27_LevelIsDepth ==
  \A c \in DOMAIN categories :
    categories[c].level = Len(categories[c].ancestors)

\* a category that was a child has just been moved to the top: level 0 and no
\* ancestors, next to a category of level 1 with one ancestor
C27_Witness ==
  /\ lastCategory.op = "update"
  /\ lastCategory.result = "saved"
  /\ lastCategory.parentArg = "modified"
  /\ LastCategoryDoc.parent = NullParent
  /\ LastCategoryDoc.level = 0
  /\ LastCategoryDoc.ancestors = <<>>
  /\ \E c \in DOMAIN categories :
       categories[c].level = 1 /\ Len(categories[c].ancestors) = 1

(***************************************************************************)
(* Category.getTree claims                                                 *)
(***************************************************************************)
\* the nodes of a forest, at every depth
RECURSIVE NodesOf(_)
NodesOf(forest) ==
  UNION {{forest[i]} \cup NodesOf(forest[i].children) : i \in DOMAIN forest}

\* the sibling lists of a forest: the roots, and the children of every node
SiblingLists(forest) == {forest} \cup {node.children : node \in NodesOf(forest)}

\* the stored active categories whose parent is parentId
ActiveChildren(parentId) ==
  {c \in DOMAIN categories :
     categories[c].status = "active" /\ categories[c].parent = parentId}

\* the nodes of a list are exactly the categories of a set, each once
ListsExactly(list, cats) ==
  /\ {list[i].id : i \in DOMAIN list} = cats
  /\ Len(list) = Cardinality(cats)

\* C23: the forest getTree returns has the active categories with parent
\* null as its roots, each node's children are exactly the active categories
\* whose parent is that node, and siblings are in ascending order of level,
\* then of displayOrder.
C23_TreeGroupsByParent ==
  treeRun.pc = "done" =>
    /\ ListsExactly(treeRun.result, ActiveChildren(NullParent))
    /\ \A node \in NodesOf(treeRun.result) :
         ListsExactly(node.children, ActiveChildren(node.id))
    /\ \A list \in SiblingLists(treeRun.result) :
         \A i, j \in DOMAIN list :
           i < j =>
             \/ categories[list[i].id].level < categories[list[j].id].level
             \/ /\ categories[list[i].id].level = categories[list[j].id].level
                /\ categories[list[i].id].displayOrder
                     <= categories[list[j].id].displayOrder

\* getTree has returned two roots, category 2 (displayOrder 0) before
\* category 1 (displayOrder 1)
C23_Witness ==
  /\ treeRun.pc = "done"
  /\ treeRun.result = <<[id |-> 2, children |-> <<>>], [id |-> 1, children |-> <<>>]>>
  /\ categories[1].displayOrder = 1
  /\ categories[2].displayOrder = 0

\* the number of nodes of a forest that are the category c
RECURSIVE Occurrences(_, _)
Occurrences(forest, c) ==
  IF forest = <<>> THEN 0
  ELSE (IF Head(forest).id = c THEN 1 ELSE 0)
         + Occurrences(Head(forest).children, c)
         + Occurrences(Tail(forest), c)

\* C28 as claimed: every stored active category is exactly one node of the
\* forest getTree returns, also when its parent is inactive, a draft, missing
\* or part of a cycle of parents.
C28_EveryActiveOnce ==
  treeRun.pc = "done" =>
    \A c \in DOMAIN categories :
      categories[c].status = "active" => Occurrences(treeRun.result, c) = 1

\* the category c is active and following parents from it leads to null in
\* at most n steps through active categories only
RECURSIVE ReachesRoot(_, _)
ReachesRoot(c, n) ==
  /\ c \in DOMAIN categories
  /\ categories[c].status = "active"
  /\ \/ categories[c].parent = NullParent
     \/ n > 0 /\ ReachesRoot(categories[c].parent, n - 1)

\* C28 amended: a stored category is exactly one node of the forest getTree
\* returns when it is active and its chain of parents leads to null through
\* active categories only, and is no node of the forest otherwise.
C28_ReachableActiveOnce ==
  treeRun.pc = "done" =>
    \A c \in DOMAIN categories :
      Occurrences(treeRun.result, c) =
        IF ReachesRoot(c, Cardinality(DOMAIN categories)) THEN 1 ELSE 0

\* getTree has returned the empty forest: the root 1 is inactive and
\* category 2, active, is its child
C28_Witness ==
  /\ treeRun.pc = "done"
  /\ DOMAIN categories = {1, 2}
  /\ categories[1].status = "inactive"
  /\ categories[1].parent = NullParent
  /\ categories[2].status = "active"
  /\ categories[2].parent = 1
  /\ treeRun.result = <<>>

\* C29: every call of getTree returns, also when a stored category is its
\* own parent or the parents form a longer cycle.
C29_TreeTerminates == (treeRun.pc = "build") ~> (treeRun.pc = "done")

\* getTree has returned while the two stored categories, both active, are
\* each other's parent
C29_Witness ==
  /\ treeRun.pc = "done"
  /\ DOMAIN categories = {1, 2}
  /\ categories[1].parent = 2
  /\ categories[2].parent = 1
  /\ categories[1].status = "active"
  /\ categories[2].status = "active"

(***************************************************************************)
(* Review claims                                                           *)
(***************************************************************************)
\* the review the last save was about, as stored
LastReviewDoc == reviews[lastReview.id]

\* C6: every review create or update is rejected unless exactly one of
\* product/post/targetUser/order is set and it is the one named by targetType,
\* so a review a save has just stored has exactly that one reference.
C6_TargetMatches ==
  lastReview.result = "saved" =>
    LastReviewDoc.targets = {TargetFieldOf(LastReviewDoc.targetType)}

\* C8: every saved review has helpfulCount = number of helpful votes,
\* notHelpfulCount = number of not_helpful votes and
\* helpfulnessScore = helpfulCount - notHelpfulCount, whatever the caller
\* passed for the three fields.
C8_VoteTallies ==
  \A r \in DOMAIN reviews :
    /\ reviews[r].helpfulCount = CountVotes(reviews[r].votes, "helpful")
    /\ reviews[r].notHelpfulCount = CountVotes(reviews[r].votes, "not_helpful")
    /\ reviews[r].helpfulnessScore = reviews[r].helpfulCount - reviews[r].notHelpfulCount

\* the caller has just saved a review holding one vote of each type, passing
\* 7 for the three fields
C8_Witness ==
  /\ lastReview.result = "saved"
  /\ lastReview.countsArg
  /\ CountVotes(LastReviewDoc.votes, "helpful") = 1
  /\ CountVotes(LastReviewDoc.votes, "not_helpful") = 1
  /\ LastReviewDoc.helpfulnessScore = 0

\* C21: every saved review has replyCount = number of replies, flagCount =
\* number of flags, and hasSellerReply true exactly when one of its replies
\* is written by a seller or is official, whatever the caller passed for the
\* three fields.
C21_ReplyAndFlagTallies ==
  \A r \in DOMAIN reviews :
    /\ reviews[r].replyCount = Len(reviews[r].replies)
    /\ reviews[r].flagCount = Len(reviews[r].flags)
    /\ reviews[r].hasSellerReply =
         (\E i \in 1..Len(reviews[r].replies) :
            \/ reviews[r].replies[i].authorType = "seller"
            \/ reviews[r].replies[i].isOfficial)

\* the caller has just saved a review whose only reply is an official reply
\* of an admin
C21_Witness ==
  /\ lastReview.result = "saved"
  /\ Len(LastReviewDoc.replies) = 1
  /\ LastReviewDoc.replies[1].authorType = "admin"
  /\ LastReviewDoc.replies[1].isOfficial
  /\ LastReviewDoc.hasSellerReply
  /\ LastReviewDoc.replyCount = 1

(***************************************************************************)
(* Post claims                                                             *)
(***************************************************************************)
\* the post the last save was about, as stored
LastPostDoc == posts[lastPost.id]

\* C7: every saved post has stats.commentsCount = number of top-level
\* comments and stats.reactionsCount = number of top-level reactions; replies
\* and the reactions inside comments and replies are not counted.
C7_TopLevelCounts ==
  \A p \in DOMAIN posts :
    /\ posts[p].stats.commentsCount = Len(posts[p].comments)
    /\ posts[p].stats.reactionsCount = Len(posts[p].reactions)

\* a save has just stored a post with one comment that has a reply, the
\* reply with a reaction, and no reaction on the post itself
C7_Witness ==
  /\ lastPost.result = "saved"
  /\ Len(LastPostDoc.comments) = 1
  /\ Len(LastPostDoc.comments[1].replies) = 1
  /\ Len(LastPostDoc.comments[1].replies[1].reactions) = 1
  /\ LastPostDoc.reactions = <<>>
  /\ LastPostDoc.stats.commentsCount = 1
  /\ LastPostDoc.stats.reactionsCount = 0

C20_ReadTimeFromWords ==
  \A p \in DOMAIN posts :
    posts[p].stats.readTime = ReadTimeOf(WordCount(posts[p].content))

(***************************************************************************)
(* Order claims                                                            *)
(***************************************************************************)
\* the order the last save was about, as stored
LastOrderDoc == orders[lastOrder.id]

\* C9: every saved order has itemCount = the sum of its line items'
\* quantities, 0 when it has no line item.
C9_ItemCountIsSum ==
  \A o \in DOMAIN orders : orders[o].itemCount = SumQuantities(orders[o].items)

\* a save has just stored an order with line items of quantity 2 and 3 and
\* itemCount 5
C9_Witness ==
  /\ lastOrder.result = "saved"
  /\ LastOrderDoc.items = <<[quantity |-> 2], [quantity |-> 3]>>
  /\ LastOrderDoc.itemCount = 5

\* C10: an order created without an orderNumber is persisted with a
\* generated orderNumber.
C10_NumberGenerated ==
  lastOrder.op = "create" /\ ~lastOrder.numberArg =>
    /\ lastOrder.result = "saved"
    /\ Truthy(LastOrderDoc.orderNumber)

\* the chains of section 4.5, each status with its position
StatusRank(status) ==
  CASE status = "pending" -> 0
    [] status = "confirmed" -> 1
    [] status = "processing" -> 2
    [] status = "partially_shipped" -> 3
    [] status = "shipped" -> 4
    [] status = "delivered" -> 5
    [] status = "completed" -> 6
    [] OTHER -> 7

PaymentRank(status) ==
  CASE status = "pending" -> 0
    [] status \in {"paid", "partially_paid"} -> 1
    [] OTHER -> 2

FulfillmentRank(status) ==
  CASE status = "unfulfilled" -> 0
    [] status = "partially_fulfilled" -> 1
    [] OTHER -> 2

\* C11: over any sequence of saves of an order, status never moves backwards
\* along pending -> confirmed -> processing -> partially_shipped -> shipped ->
\* delivered -> completed (cancelled, refunded, on_hold and failed being
\* entered from the states of the chain), and paymentStatus and
\* fulfillmentStatus never move backwards along their own chains.
C11_StatusesAdvance ==
  [][\A o \in DOMAIN orders :
       /\ StatusRank(orders[o].status) <= StatusRank(orders'[o].status)
       /\ PaymentRank(orders[o].paymentStatus) <= PaymentRank(orders'[o].paymentStatus)
       /\ FulfillmentRank(orders[o].fulfillmentStatus)
            <= FulfillmentRank(orders'[o].fulfillmentStatus)]_vars

\* C12: a save that changes one of an order's status, paymentStatus and
\* fulfillmentStatus leaves the other two unchanged.
C12_StatusesIndependent ==
  [][\A o \in DOMAIN orders :
       Cardinality({field \in {"status", "paymentStatus", "fulfillmentStatus"} :
                      orders'[o][field] # orders[o][field]}) <= 1]_vars

\* a save has just stored paymentStatus = paid on an order that is still
\* pending and unfulfilled
C12_Witness ==
  /\ lastOrder.op = "update"
  /\ lastOrder.result = "saved"
  /\ LastOrderDoc.paymentStatus = "paid"
  /\ LastOrderDoc.status = "pending"
  /\ LastOrderDoc.fulfillmentStatus = "unfulfilled"

\* C13: for every order, canBeCancelled is true exactly when status is one of
\* pending, confirmed, on_hold, whatever paymentStatus and fulfillmentStatus
\* are.
C13_CancellableStatuses ==
  \A o \in DOMAIN orders :
    CanBeCancelled(orders[o]) <=> orders[o].status \in {"pending", "confirmed", "on_hold"}

\* an order on hold that is paid can be cancelled
C13_Witness ==
  /\ lastOrder.result = "saved"
  /\ LastOrderDoc.status = "on_hold"
  /\ LastOrderDoc.paymentStatus = "paid"
  /\ CanBeCancelled(LastOrderDoc)

(***************************************************************************)
(* The middleware and the paths it does not derive                         *)
(***************************************************************************)
\* stored and handed hold the same paths with the same values, but for a
\* path of whenAbsent that held nothing when handed to save()
SameOutside(stored, handed, whenAbsent) ==
  /\ DOMAIN stored = DOMAIN handed
  /\ \A p \in DOMAIN handed :
       IF p \in whenAbsent /\ ~Truthy(handed[p]) THEN TRUE
       ELSE stored[p] = handed[p]

\* C24: a save that succeeds stores every path of a review, post, tag or
\* product as it was handed to save(), nested collections included, but for
\* the derived counts, scores and flags and for a slug or excerpt that held
\* nothing; and a stored document whose collection is empty or unset holds 0
\* (false for a flag) in the fields derived from that collection
C24_OnlyDerivedFieldsChange ==
  /\ lastReview.result = "saved" =>
       SameOutside(Frame(reviews[lastReview.id], ReviewDerivedPaths),
                   lastReview.frame, {})
  /\ lastPost.result = "saved" =>
       SameOutside(Frame(posts[lastPost.id], PostDerivedPaths),
                   lastPost.frame, {"slug", "excerpt"})
  /\ lastTag.result = "saved" =>
       SameOutside([tags[lastTag.id] EXCEPT !.stats = Frame(@, TagDerivedPaths)],
                   lastTag.frame, {"slug"})
  /\ lastProduct.result = "saved" =>
       SameOutside(Frame(products[lastProduct.id], ProductDerivedPaths),
                   lastProduct.frame, {"slug"})
  /\ \A id \in DOMAIN reviews :
       /\ ListLength(reviews[id], "votes") = 0 =>
            /\ reviews[id].helpfulCount = 0
            /\ reviews[id].notHelpfulCount = 0
            /\ reviews[id].helpfulnessScore = 0
       /\ ListLength(reviews[id], "replies") = 0 =>
            reviews[id].replyCount = 0 /\ ~reviews[id].hasSellerReply
       /\ ListLength(reviews[id], "flags") = 0 => reviews[id].flagCount = 0
  /\ \A id \in DOMAIN posts :
       /\ ListLength(posts[id], "reactions") = 0 => posts[id].stats.reactionsCount = 0
       /\ ListLength(posts[id], "comments") = 0 => posts[id].stats.commentsCount = 0
  /\ \A id \in DOMAIN products :
       ListLength(products[id], "variants") = 0 => ~products[id].hasVariants

\* a review was saved again with its votes, replies and flags unset and
\* holds a helpfulCount of 0, and a post with no comments was saved with a
\* slug the middleware generated
C24_Witness ==
  /\ lastReview.result = "saved"
  /\ lastReview.op = "update"
  /\ "votes" \notin DOMAIN reviews[lastReview.id]
  /\ reviews[lastReview.id].helpfulCount = 0
  /\ lastPost.result = "saved"
  /\ ~lastPost.slugArg
  /\ posts[lastPost.id].comments = <<>>
(***************************************************************************)
(* The slug of a renamed document                                          *)
(***************************************************************************)
\* C30: a save that assigns nothing but a new name to a category, tag or
\* product whose slug is not empty leaves the slug as it was, and leaves the
\* path of a category as it was
C30_RenameKeepsSlug ==
  [][/\ \A id \in DOMAIN categories :
          Truthy(categories[id].slug) /\ categories'[id].name # categories[id].name
            => /\ categories'[id].slug = categories[id].slug
               /\ categories'[id].path = categories[id].path
     /\ \A id \in DOMAIN tags :
          Truthy(tags[id].slug) /\ tags'[id].name # tags[id].name
            => tags'[id].slug = tags[id].slug
     /\ \A id \in DOMAIN products :
          Truthy(products[id].slug) /\ products'[id].name # products[id].name
            => products'[id].slug = products[id].slug]_vars

\* a category under a parent was renamed: its slug is not empty, is not the
\* slug of its name and is not the slug a caller passes, so it was generated
\* from an earlier name
C30_Witness ==
  /\ lastCategory.op = "update"
  /\ lastCategory.result = "saved"
  /\ LET doc == categories[lastCategory.id]
     IN  /\ Truthy(doc.slug)
         /\ doc.slug # Slugify(doc.name)
         /\ doc.slug # <<"b">>
         /\ doc.parent # NullParent
         /\ Truthy(doc.path)
====
